---- MODULE Spec2Model ----
(***************************************************************************)
(* Task Store (lib/task_manager.py), Scheduler Loop and Auto-off Timer Set *)
(* (main_board.py) of the ESP32 controller.                                *)
(*                                                                         *)
(* Timer callbacks (the periodic scheduler tick and the one-shot auto-off  *)
(* callbacks) are modelled as run-to-completion handlers, one action each. *)
(* machine.Timer is modelled by its documented behaviour: Timer(-1) makes  *)
(* a new timer object, init(ONE_SHOT) arms it, deinit() disarms it, and an *)
(* armed one-shot timer runs its callback once.                            *)
(*                                                                         *)
(* Specifications of the controller: Spec (every statement succeeds),      *)
(* SpecStore and SpecPersist (writes of the storage file may fail),        *)
(* SpecRaise (a statement of the tick may raise), SpecList (a caller holds *)
(* the list get_tasks returned) and SpecMain (add_task, delete_task and    *)
(* shutdown taken one statement at a time on the main thread, the timer    *)
(* callbacks running between two of its statements).                       *)
(*                                                                         *)
(* HTTP server (lib/MicroWebServ/microWebSrv.py): the route table, the     *)
(* accept loop and the connection handler.  A connection is accepted with  *)
(* the request its peer sends, then handled from its first line to the     *)
(* close of its socket in one action; what the handler did on the socket   *)
(* is kept in the variable client.  Specification SpecWeb.                 *)
(***************************************************************************)
EXTENDS Integers, Sequences, FiniteSets, TLC

VARIABLES
    tasks,            \* TaskManager.tasks: the in-memory list of task dicts
    file,             \* the storage file: [exists, text], text a JSON token list
    clock,            \* minutes elapsed on the wall clock since StartTime
    relays,           \* RelayController.relays: pin value per channel (0 = ON)
    device_status,    \* ESP32Controller.device_status
    auto_off_timers,  \* ESP32Controller.auto_off_timers: device name -> timer id
    timers,           \* the armed machine.Timer objects (armed, not fired, not deinit'ed)
    faults,           \* environment: the failures so far (writes of the storage
                      \* file that failed, statements of a tick that raised)
    routeHandlers,    \* MicroWebSrv._routeHandlers: the compiled routes, in order
    notFoundUrl,      \* MicroWebSrv._notFoundUrl ("None" when not configured)
    www,              \* the files under the web root: physical path -> size
    AcceptWebSocketCallback,  \* MicroWebSrv.AcceptWebSocketCallback ("None" when not set)
    serverProcess,    \* where MicroWebSrv._serverProcess is: "none", "accept",
                      \* "client", "ended" (left by break) or "raised"
    client,           \* the connection accepted last: its request, and once it
                      \* has been handled what was done on its socket
    task_timer,       \* ESP32Controller.task_timer: the periodic scheduler timer
    main,             \* the operation the main thread is in the middle of, and
                      \* where in it
    held,             \* the list a caller of get_tasks still holds
    last              \* history: the operation that produced this state

webVars == <<routeHandlers, notFoundUrl, www, AcceptWebSocketCallback, serverProcess,
            client>>

vars == <<tasks, file, clock, relays, device_status, auto_off_timers, timers,
          faults, routeHandlers, notFoundUrl, www, AcceptWebSocketCallback,
          serverProcess, client, task_timer, main, held, last>>

storeVars == <<tasks, file>>
threadVars == <<main, held>>
deviceVars == <<relays, device_status, auto_off_timers, timers>>

----------------------------------------------------------------------------
(* Bounds of the model *)

\* stands for TaskManager.max_tasks (50 in config.py, 20 by default)
MaxTasks == 2
\* the wall clock runs over the minutes StartTime .. StartTime + MaxClock
MaxClock == 2
\* the largest task duration (seconds) drawn as an input
MaxDuration == 12
\* the number of writes of the storage file that fail in one behaviour
MaxFaults == 1

----------------------------------------------------------------------------
(* Configuration *)

max_tasks == MaxTasks

\* config.HARDWARE_CONFIG['relay_pins'] has four entries: channels 0..3
Channels == 0 .. 3

\* the devices of check_scheduled_tasks' if/elif chain, with their channels
RelayDevices == {"pump1", "pump2", "pump3", "dcmotor"}

ChannelOf(device) ==
    CASE device = "pump1" -> 0
      [] device = "pump2" -> 1
      [] device = "pump3" -> 2
      [] device = "dcmotor" -> 3

\* config.DEFAULTS['servo_angle']
ServoAngle == 90

\* the keys of device_status: every key of DEVICE_CONFIG
DeviceNames == RelayDevices \cup {"servo"}

----------------------------------------------------------------------------
(* Clock and the formatting of the current date and time *)

\* <<year, month, day, hour, minute>> of the first modelled minute
StartTime == <<2024, 12, 25, 9, 58>>

\* time.localtime() at minute c (no day change within the modelled minutes)
LocalTime(c) ==
    LET m == StartTime[5] + c
    IN  <<StartTime[1], StartTime[2], StartTime[3],
          StartTime[4] + (m \div 60), m % 60>>

Digit(n) == <<"0", "1", "2", "3", "4", "5", "6", "7", "8", "9">>[n + 1]

RECURSIVE IntToStr(_)
\* str(n) for n >= 0
IntToStr(n) == IF n < 10 THEN Digit(n) ELSE IntToStr(n \div 10) \o Digit(n % 10)

\* the format spec :02d
Pad2(n) == IF n < 10 THEN "0" \o Digit(n) ELSE IntToStr(n)

\* f"{t[0]}-{t[1]:02d}-{t[2]:02d}"
FormatDate(t) == IntToStr(t[1]) \o "-" \o Pad2(t[2]) \o "-" \o Pad2(t[3])

\* f"{t[3]:02d}:{t[4]:02d}"
FormatTime(t) == Pad2(t[4]) \o ":" \o Pad2(t[5])

----------------------------------------------------------------------------
(* Tasks and the inputs of add_task *)

Task(date, time, device, duration) ==
    [date |-> date, time |-> time, device |-> device, duration |-> duration]

\* The tasks add_task is called with: the four relay devices, two devices in
\* the same minute, one device in two successive minutes, a zero duration, a
\* device the scheduler has no branch for, and a time written without its
\* leading zero.
TaskInputs ==
    { Task("2024-12-25", "09:59", "pump1", MaxDuration),
      Task("2024-12-25", "09:59", "pump2", MaxDuration),
      Task("2024-12-25", "10:00", "pump1", MaxDuration),
      Task("2024-12-25", "10:00", "pump3", MaxDuration),
      Task("2024-12-25", "10:00", "dcmotor", 0),
      Task("2024-12-25", "09:59", "servo", MaxDuration),
      Task("2024-12-25", "9:59", "pump2", MaxDuration) }

\* the indices delete_task is called with
IndexInputs == -1 .. (MaxTasks + 1)

----------------------------------------------------------------------------
(* The storage file: ujson.dump / ujson.load on a list of task dicts *)

\* mutant: the number is written with its last digit only
DumpTask_LastDigit(t) == <<"{", t.date, t.time, t.device, Digit(t.duration % 10), "}">>

\* the JSON text of one task dict, as tokens
DumpTask(t) == <<"{", t.date, t.time, t.device, IntToStr(t.duration), "}">>

RECURSIVE DumpList(_)
DumpList(ts) == IF ts = <<>> THEN <<>> ELSE DumpTask(Head(ts)) \o DumpList(Tail(ts))

\* ujson.dump(self.tasks, f): the whole text written to the file
Dump(ts) == <<"[">> \o DumpList(ts) \o <<"]">>

\* a JSON number token read back as an int; -1 when it is none
ParseInt(s) ==
    IF \E n \in 0 .. MaxDuration : IntToStr(n) = s
    THEN CHOOSE n \in 0 .. MaxDuration : IntToStr(n) = s
    ELSE -1

ParseFailed == [ok |-> FALSE, tasks |-> <<>>]

RECURSIVE ParseList(_)
\* the objects of a token list up to its closing bracket; ParseFailed when
\* the text ends early or is malformed
ParseList(text) ==
    IF text = <<>> THEN ParseFailed
    ELSE IF text = <<"]">> THEN [ok |-> TRUE, tasks |-> <<>>]
    ELSE IF Len(text) < 6 THEN ParseFailed
    ELSE IF text[1] # "{" \/ text[6] # "}" \/ ParseInt(text[5]) < 0 THEN ParseFailed
    ELSE LET rest == ParseList(SubSeq(text, 7, Len(text)))
         IN  IF ~rest.ok THEN ParseFailed
             ELSE [ok |-> TRUE,
                   tasks |-> <<Task(text[2], text[3], text[4], ParseInt(text[5]))>>
                             \o rest.tasks]

\* ujson.load(f): the task list of a well-formed text
Parse(text) ==
    IF text = <<>> THEN ParseFailed
    ELSE IF Head(text) # "[" THEN ParseFailed
    ELSE ParseList(Tail(text))

NoFile == [exists |-> FALSE, text |-> <<>>]
FileOf(text) == [exists |-> TRUE, text |-> text]

\* _load_tasks: the list read from the file, or [] when the file is missing
\* or cannot be parsed
LoadTasks(f) ==
    IF ~f.exists THEN <<>>
    ELSE IF ~Parse(f.text).ok THEN <<>>
    ELSE Parse(f.text).tasks

\* What a call of _save_tasks can do to the file:
\*   ok            the whole text is written
\*   open_failed   open(filename, 'w') raises: the file is not touched
\*   write_failed  open truncated the file and ujson.dump raised after
\*                 `written` tokens: the file holds that prefix (drawn: the
\*                 earliest and the latest point of failure)
SaveOk(ts) == [kind |-> "ok", written |-> Len(Dump(ts))]

SaveFailures(ts) ==
    {[kind |-> "open_failed", written |-> 0]}
    \cup {[kind |-> "write_failed", written |-> n] : n \in {0, Len(Dump(ts)) - 1}}

\* mutant: the file is opened for appending, so a write adds the text of the
\* list to what the file held
SaveTasks_AppendMode(ts, f, o) ==
    CASE o.kind = "ok" -> FileOf((IF f.exists THEN f.text ELSE <<>>) \o Dump(ts))
      [] o.kind = "open_failed" -> f
      [] o.kind = "write_failed" -> FileOf(SubSeq(Dump(ts), 1, o.written))

\* _save_tasks: the file after saving the list ts with outcome o
SaveTasks(ts, f, o) ==
    CASE o.kind = "ok" -> FileOf(Dump(ts))
      [] o.kind = "open_failed" -> f
      [] o.kind = "write_failed" -> FileOf(SubSeq(Dump(ts), 1, o.written))

----------------------------------------------------------------------------
(* TaskManager.add_task and delete_task *)

\* mutant: at the limit the oldest task makes room for the new one
AddTaskResult_Evicts(ts, f, task, o) ==
    IF Len(ts) >= max_tasks
    THEN [tasks |-> Append(Tail(ts), task),
          file |-> SaveTasks(Append(Tail(ts), task), f, o),
          raised |-> FALSE]
    ELSE [tasks |-> Append(ts, task),
          file |-> SaveTasks(Append(ts, task), f, o),
          raised |-> FALSE]

\* mutant: the limit test lets one task too many in
AddTaskResult_OffByOne(ts, f, task, o) ==
    IF Len(ts) > max_tasks
    THEN [tasks |-> ts, file |-> f, raised |-> TRUE]
    ELSE [tasks |-> Append(ts, task),
          file |-> SaveTasks(Append(ts, task), f, o),
          raised |-> FALSE]

\* add_task: the list and the file afterwards, and whether ValueError is raised
AddTaskResult(ts, f, task, o) ==
    IF Len(ts) >= max_tasks
    THEN [tasks |-> ts, file |-> f, raised |-> TRUE]
    ELSE [tasks |-> Append(ts, task),
          file |-> SaveTasks(Append(ts, task), f, o),
          raised |-> FALSE]

\* mutant: the last element is removed, whatever the index
RemoveAt_Last(ts, index) == SubSeq(ts, 1, Len(ts) - 1)

\* del self.tasks[index], index counted from 0
RemoveAt(ts, index) == SubSeq(ts, 1, index) \o SubSeq(ts, index + 2, Len(ts))

\* mutant: no lower bound on the index, so that a negative index counts from
\* the end of the list as Python's del does
DeleteTaskResult_NoLowerBound(ts, f, index, o) ==
    LET i == IF index < 0 THEN index + Len(ts) ELSE index
    IN  IF index < Len(ts) /\ 0 <= i
        THEN [tasks |-> RemoveAt(ts, i),
              file |-> SaveTasks(RemoveAt(ts, i), f, o),
              result |-> TRUE]
        ELSE [tasks |-> ts, file |-> f, result |-> FALSE]

\* delete_task: the list and the file afterwards, and the value returned
DeleteTaskResult(ts, f, index, o) ==
    IF 0 <= index /\ index < Len(ts)
    THEN [tasks |-> RemoveAt(ts, index),
          file |-> SaveTasks(RemoveAt(ts, index), f, o),
          result |-> TRUE]
    ELSE [tasks |-> ts, file |-> f, result |-> FALSE]

\* no list is held
NoList == [taken |-> FALSE, alias |-> FALSE, own |-> <<>>]

\* get_tasks: return self.tasks, the list object of the store itself (alias);
\* own would be the elements of a list of the caller's own
GetTasks(ts) == [taken |-> TRUE, alias |-> TRUE, own |-> <<>>]

\* the elements of the held list h while the store's list holds ts
ListOf(h, ts) == IF h.alias THEN ts ELSE h.own

----------------------------------------------------------------------------
(* RelayController *)

\* RelayController.on / off: LOW (0) switches an active-low relay on
RelayOn(rel, channel) ==
    IF channel \in DOMAIN rel THEN [rel EXCEPT ![channel] = 0] ELSE rel

RelayOff(rel, channel) ==
    IF channel \in DOMAIN rel THEN [rel EXCEPT ![channel] = 1] ELSE rel

----------------------------------------------------------------------------
(* Auto-off timers *)

\* A timer object is identified by the device it was made for and a number
\* that tells it from the other armed timers made for that device.
TimerIds(tms, device_name) == {t.id : t \in {u \in tms : u.device = device_name}}

\* Timer.deinit() of the timer object (device_name, id)
Deinit(tms, device_name, id) ==
    {t \in tms : ~(t.device = device_name /\ t.id = id)}

\* mutant: the existing timer is left armed
CancelExisting_Skipped(aot, tms, device_name) == tms

\* cancel the existing timer if the device is already scheduled
CancelExisting(aot, tms, device_name) ==
    IF device_name \in DOMAIN aot
    THEN Deinit(tms, device_name, aot[device_name])
    ELSE tms

\* Timer(-1): an object distinct from every armed timer
NewTimerId(tms, device_name) ==
    LET used == TimerIds(tms, device_name)
    IN  CHOOSE id \in 0 .. Cardinality(used) :
            id \notin used /\ \A j \in 0 .. (id - 1) : j \in used

\* _set_auto_off_timer: the timer dict and the armed timers afterwards
SetAutoOffTimer(aot, tms, device_name, channel, duration) ==
    LET kept == CancelExisting(aot, tms, device_name)
        id == NewTimerId(kept, device_name)
        timer == [id |-> id, device |-> device_name, channel |-> channel,
                  period |-> duration * 1000]
    IN  [auto_off_timers |->
             [d \in DOMAIN aot \cup {device_name} |->
                 IF d = device_name THEN id ELSE aot[d]],
         timers |-> kept \cup {timer}]

\* del self.auto_off_timers[device_name] when the key is present
RemoveKey(aot, device_name) == [d \in DOMAIN aot \ {device_name} |-> aot[d]]

\* mutant: the callback switches the relay off and forgets device_status
AutoOffCallback_StatusKept(rel, ds, aot, device_name, channel) ==
    [relays |-> RelayOff(rel, channel),
     device_status |-> ds,
     auto_off_timers |-> RemoveKey(aot, device_name)]

\* auto_off_callback of the timer armed for (device_name, channel)
AutoOffCallback(rel, ds, aot, device_name, channel) ==
    [relays |-> RelayOff(rel, channel),
     device_status |-> [ds EXCEPT ![device_name] = FALSE],
     auto_off_timers |-> RemoveKey(aot, device_name)]

----------------------------------------------------------------------------
(* The periodic scheduler timer *)

\* Timer(0) as __init__ makes it: not armed
NewTimer == [armed |-> FALSE, mode |-> "none", period |-> 0]

\* start_task_scheduler: task_timer.init(mode=Timer.PERIODIC, period=60000, ...)
StartTaskScheduler(t) == [armed |-> TRUE, mode |-> "PERIODIC", period |-> 60000]

\* the timer once its callback has been run: a periodic timer stays armed
AfterCallback(t) == IF t.mode = "PERIODIC" THEN t ELSE [t EXCEPT !.armed = FALSE]

\* task_timer.deinit()
StopTimer(t) == [t EXCEPT !.armed = FALSE]

\* the main thread is in no operation
NoOperation == [op |-> "none"]

----------------------------------------------------------------------------
(* Scheduler tick *)

RECURSIVE FirstMatchFrom(_, _, _, _)
\* the loop of check_scheduled_tasks: the index (from 0) of the first task at
\* or after i whose date and time equal the current ones, -1 when there is none
FirstMatchFrom(ts, i, current_date, current_time_str) ==
    IF i >= Len(ts) THEN -1
    ELSE IF ts[i + 1].date = current_date /\ ts[i + 1].time = current_time_str THEN i
    ELSE FirstMatchFrom(ts, i + 1, current_date, current_time_str)

RECURSIVE LastMatchFrom(_, _, _, _)
LastMatchFrom(ts, i, current_date, current_time_str) ==
    IF i < 0 THEN -1
    ELSE IF ts[i + 1].date = current_date /\ ts[i + 1].time = current_time_str THEN i
    ELSE LastMatchFrom(ts, i - 1, current_date, current_time_str)

\* mutant: the scan keeps the last matching task instead of the first
FirstMatch_Last(ts, c) ==
    LastMatchFrom(ts, Len(ts) - 1, FormatDate(LocalTime(c)), FormatTime(LocalTime(c)))

\* mutant: the hour of the current time is written without its leading zero
FirstMatch_Unpadded(ts, c) ==
    FirstMatchFrom(ts, 0, FormatDate(LocalTime(c)),
                   IntToStr(LocalTime(c)[4]) \o ":" \o Pad2(LocalTime(c)[5]))

\* the task a tick at minute c executes
FirstMatch(ts, c) == FirstMatchFrom(ts, 0, FormatDate(LocalTime(c)), FormatTime(LocalTime(c)))

\* mutant: a device outside the if/elif chain is switched as channel 0
ExecuteTask_DefaultChannel(rel, ds, aot, tms, task) ==
    IF task.device \in RelayDevices
    THEN LET armed == SetAutoOffTimer(aot, tms, task.device,
                                      ChannelOf(task.device), task.duration)
         IN  [relays |-> RelayOn(rel, ChannelOf(task.device)),
              device_status |-> [ds EXCEPT ![task.device] = TRUE],
              auto_off_timers |-> armed.auto_off_timers,
              timers |-> armed.timers]
    ELSE [relays |-> RelayOn(rel, 0), device_status |-> ds,
          auto_off_timers |-> aot, timers |-> tms]

\* the device-specific commands of a matching task: relay on, status True,
\* auto-off timer armed; nothing for a device outside the if/elif chain
ExecuteTask(rel, ds, aot, tms, task) ==
    IF task.device \in RelayDevices
    THEN LET armed == SetAutoOffTimer(aot, tms, task.device,
                                      ChannelOf(task.device), task.duration)
         IN  [relays |-> RelayOn(rel, ChannelOf(task.device)),
              device_status |-> [ds EXCEPT ![task.device] = TRUE],
              auto_off_timers |-> armed.auto_off_timers,
              timers |-> armed.timers]
    ELSE [relays |-> rel, device_status |-> ds,
          auto_off_timers |-> aot, timers |-> tms]

----------------------------------------------------------------------------
(* A tick in which a statement raises *)

\* the statements of check_scheduled_tasks drawn to raise an exception:
\*   clock     time.localtime() (line 225)
\*   tasks     reading the task list (lines 229-232)
\*   relay     relay_controller.on (lines 242, 246, 250, 254), pin not yet set
\*   arm_new   Timer(-1) in _set_auto_off_timer (line 291)
\*   arm_init  Timer.init in _set_auto_off_timer (lines 292-296)
\*   delete    delete_task, at its print after the save (line 152)
RaisePoints == {"clock", "tasks", "relay", "arm_new", "arm_init", "delete"}

\* the try body of check_scheduled_tasks run until the statement `at`
\* raises; reached tells whether the run gets to that statement at all
TickUntil(ts, f, c, rel, ds, aot, tms, at) ==
    LET i == FirstMatch(ts, c)
        same == [tasks |-> ts, file |-> f, relays |-> rel, device_status |-> ds,
                 auto_off_timers |-> aot, timers |-> tms, fired |-> FALSE,
                 reached |-> TRUE, exc |-> TRUE]
    IN  IF at \in {"clock", "tasks"} THEN same
        ELSE IF i < 0 THEN [same EXCEPT !.reached = FALSE]
        ELSE
        LET task == ts[i + 1]
            device_name == task.device
            on == [same EXCEPT !.relays = RelayOn(rel, ChannelOf(device_name)),
                               !.device_status = [ds EXCEPT ![device_name] = TRUE]]
            kept == CancelExisting(aot, tms, device_name)
            x == ExecuteTask(rel, ds, aot, tms, task)
            r == DeleteTaskResult(ts, f, i, SaveOk(RemoveAt(ts, i)))
        IN  IF at = "delete"
            THEN [tasks |-> r.tasks, file |-> r.file, relays |-> x.relays,
                  device_status |-> x.device_status,
                  auto_off_timers |-> x.auto_off_timers, timers |-> x.timers,
                  fired |-> TRUE, reached |-> TRUE, exc |-> TRUE]
            ELSE IF device_name \notin RelayDevices THEN [same EXCEPT !.reached = FALSE]
            ELSE IF at = "relay" THEN same
            ELSE IF at = "arm_new" THEN [on EXCEPT !.timers = kept]
            ELSE [on EXCEPT !.timers = kept,
                            !.auto_off_timers =
                                [d \in DOMAIN aot \cup {device_name} |->
                                    IF d = device_name
                                    THEN NewTimerId(kept, device_name)
                                    ELSE aot[d]]]

\* mutant: check_scheduled_tasks without its except clause
TickExcept_Missing(r) == r

\* except Exception as e (lines 262-264): the exception is printed
TickExcept(r) == [r EXCEPT !.exc = FALSE]

----------------------------------------------------------------------------
(* HTTP server (lib/MicroWebServ/microWebSrv.py).  A str is a sequence of  *)
(* one-character strings; methods, header names and handler names are      *)
(* atoms.                                                                  *)

Letters ==
    {"a", "b", "c", "d", "e", "f", "g", "h", "i", "j", "k", "l", "m", "n", "o",
     "p", "q", "r", "s", "t", "u", "v", "w", "x", "y", "z",
     "A", "B", "C", "D", "E", "F", "G", "H", "I", "J", "K", "L", "M", "N", "O",
     "P", "Q", "R", "S", "T", "U", "V", "W", "X", "Y", "Z"}

DigitChars == {Digit(n) : n \in 0 .. 9}

\* the character class \w of the re module
IsWord(c) == c \in Letters \cup DigitChars \cup {"_"}

RECURSIVE SplitFrom(_, _, _, _)
SplitFrom(s, sep, i, cur) ==
    IF i > Len(s) THEN <<cur>>
    ELSE IF s[i] = sep THEN <<cur>> \o SplitFrom(s, sep, i + 1, <<>>)
    ELSE SplitFrom(s, sep, i + 1, Append(cur, s[i]))

\* str.split(sep)
Split(s, sep) == SplitFrom(s, sep, 1, <<>>)

\* str.startswith(c), str.endswith(c) for a single character c
StartsWith(s, c) == Len(s) > 0 /\ s[1] = c
EndsWith(s, c) == Len(s) > 0 /\ s[Len(s)] = c

\* str.upper() on the method names that occur
Upper(method) ==
    IF method = "get" THEN "GET"
    ELSE IF method = "post" THEN "POST"
    ELSE IF method = "put" THEN "PUT"
    ELSE method

\* int(value) of a captured group: it succeeds on a non-empty run of digits
IsNumeric(s) == Len(s) > 0 /\ \A j \in 1 .. Len(s) : s[j] \in DigitChars

DigitValue(c) == CHOOSE n \in 0 .. 9 : Digit(n) = c

RECURSIVE ToInt(_)
ToInt(s) ==
    IF Len(s) = 1 THEN DigitValue(s[1])
    ELSE 10 * ToInt(SubSeq(s, 1, Len(s) - 1)) + DigitValue(s[Len(s)])

----------------------------------------------------------------------------
(* Routes: MicroWebSrv.__init__ and GetRouteHandler *)

\* a route part of the form <name>
IsArgPart(s) == StartsWith(s, "<") /\ EndsWith(s, ">")

RECURSIVE RouteArgNamesOf(_)
RouteArgNamesOf(routeParts) ==
    IF routeParts = <<>> THEN <<>>
    ELSE LET s == Head(routeParts)
         IN  (IF IsArgPart(s) THEN <<SubSeq(s, 2, Len(s) - 1)>> ELSE <<>>)
             \o RouteArgNamesOf(Tail(routeParts))

RECURSIVE RouteRegexOf(_)
\* the pattern built from the route parts: one element per '/(\w*)' or
\* '/' + s appended to routeRegex; an empty part appends nothing
RouteRegexOf(routeParts) ==
    IF routeParts = <<>> THEN <<>>
    ELSE LET s == Head(routeParts)
         IN  (IF IsArgPart(s) THEN <<[group |-> TRUE, text |-> <<>>]>>
              ELSE IF Len(s) > 0 THEN <<[group |-> FALSE, text |-> s]>>
              ELSE <<>>)
             \o RouteRegexOf(Tail(routeParts))

\* MicroWebSrvRoute(route, method, func, routeArgNames, routeRegex)
MicroWebSrvRoute(route, method, func) ==
    [route |-> route, method |-> method, func |-> func,
     routeArgNames |-> RouteArgNamesOf(Split(route, "/")),
     routeRegex |-> RouteRegexOf(Split(route, "/"))]

\* MicroWebSrv.__init__: the routes passed in, then the decorated ones,
\* compiled in that order
CompileRoutes(items) == [k \in 1 .. Len(items) |->
    MicroWebSrvRoute(items[k][1], items[k][2], items[k][3])]

RECURSIVE WordRun(_, _)
\* where the longest run of \w characters of s that starts at i ends
WordRun(s, i) == IF i <= Len(s) /\ IsWord(s[i]) THEN WordRun(s, i + 1) ELSE i

\* the literal text of a pattern element read at position i of s; as in a
\* regular expression, '.' in the pattern reads any character
TextAt(s, i, text) ==
    /\ i + Len(text) - 1 <= Len(s)
    /\ \A j \in 1 .. Len(text) : text[j] = "." \/ text[j] = s[i + j - 1]

NoMatch == [matched |-> FALSE, groups |-> <<>>]

RECURSIVE MatchFrom(_, _, _, _)
\* routeRegex.match(s): the pattern elements from k on read from position i
\* of s, then '$'
MatchFrom(regex, k, s, i) ==
    IF k > Len(regex) THEN [matched |-> i = Len(s) + 1, groups |-> <<>>]
    ELSE IF ~(i <= Len(s) /\ s[i] = "/") THEN NoMatch
    ELSE IF regex[k].group
    THEN LET j == WordRun(s, i + 1)
             m == MatchFrom(regex, k + 1, s, j)
         IN  IF m.matched
             THEN [matched |-> TRUE, groups |-> <<SubSeq(s, i + 1, j - 1)>> \o m.groups]
             ELSE NoMatch
    ELSE IF TextAt(s, i + 1, regex[k].text)
    THEN MatchFrom(regex, k + 1, s, i + 1 + Len(regex[k].text))
    ELSE NoMatch

RegexMatch(regex, s) == MatchFrom(regex, 1, s, 1)

\* a captured value: an integer when int(value) succeeds, the str otherwise
RouteArg(name, value) ==
    IF IsNumeric(value) THEN [name |-> name, int |-> TRUE, n |-> ToInt(value)]
    ELSE [name |-> name, int |-> FALSE, s |-> value]

NoArgs == [none |-> TRUE, args |-> <<>>]
NoRoute == [func |-> "None", routeArgs |-> NoArgs]

RECURSIVE RouteLoop_Last(_, _, _, _)
\* mutant: the loop keeps going and returns the last matching route
RouteLoop_Last(rhs, k, resUrl, method) ==
    IF k > Len(rhs) THEN NoRoute
    ELSE LET rh == rhs[k]
             later == RouteLoop_Last(rhs, k + 1, resUrl, method)
         IN  IF later.func # "None" THEN later
             ELSE IF rh.method = method /\ RegexMatch(rh.routeRegex, resUrl).matched
             THEN [func |-> rh.func, routeArgs |-> NoArgs]
             ELSE NoRoute

RECURSIVE RouteLoop(_, _, _, _)
\* the loop over self._routeHandlers: the first route whose method is the
\* request's and whose pattern matches
RouteLoop(rhs, k, resUrl, method) ==
    IF k > Len(rhs) THEN NoRoute
    ELSE LET rh == rhs[k]
             m == RegexMatch(rh.routeRegex, resUrl)
         IN  IF rh.method = method /\ m.matched
             THEN [func |-> rh.func,
                   routeArgs |->
                       IF rh.routeArgNames # <<>>
                       THEN [none |-> FALSE,
                             args |-> [i \in 1 .. Len(rh.routeArgNames) |->
                                          RouteArg(rh.routeArgNames[i], m.groups[i])]]
                       ELSE NoArgs]
             ELSE RouteLoop(rhs, k + 1, resUrl, method)

\* resUrl with one trailing slash removed
TrimSlash(resUrl) ==
    IF EndsWith(resUrl, "/") THEN SubSeq(resUrl, 1, Len(resUrl) - 1) ELSE resUrl

\* MicroWebSrv.GetRouteHandler(resUrl, method)
GetRouteHandler(rhs, resUrl, method) ==
    IF rhs # <<>> THEN RouteLoop(rhs, 1, TrimSlash(resUrl), Upper(method))
    ELSE NoRoute

----------------------------------------------------------------------------
(* Response: MicroWebSrv._response.  The connection's i/o is a record: the  *)
(* items written to the socket, the sizes passed to socketfile.read, the    *)
(* paths given to stat, the calls of socket.close; exc is TRUE while an     *)
(* exception propagates, and a statement reached with exc set does nothing. *)

NewIO(failAt, readFail) ==
    [wire |-> <<>>, writes |-> 0, failAt |-> failAt,
     reads |-> <<>>, stats |-> <<>>, fileReads |-> 0, readFail |-> readFail,
     closes |-> 0, exc |-> FALSE]

Raise(s) == [s EXCEPT !.exc = TRUE]

\* an except clause: the exception stops here
Caught(s) == [s EXCEPT !.exc = FALSE]

\* _write(data) for data that is not empty: socketfile.write raises from the
\* failAt-th call on (the peer is gone), otherwise the item is on the wire
Write(s, item) ==
    IF s.exc THEN s
    ELSE IF s.failAt > 0 /\ s.writes + 1 >= s.failAt
    THEN [s EXCEPT !.writes = @ + 1, !.exc = TRUE]
    ELSE [s EXCEPT !.writes = @ + 1, !.wire = Append(@, item)]

WriteFirstLine(s, code) == Write(s, [kind |-> "status", code |-> code])

WriteHeader(s, name) == Write(s, [kind |-> "header", name |-> name])

WriteEndHeader(s) == Write(s, [kind |-> "end"])

RECURSIVE WriteHeaders(_, _)
WriteHeaders(s, headers) ==
    IF headers = <<>> THEN s
    ELSE WriteHeaders(WriteHeader(s, Head(headers)), Tail(headers))

\* _writeBeforeContent(code, headers, contentType, contentCharset, contentLength)
WriteBeforeContent(s, code, headers, contentLength) ==
    LET a == WriteHeaders(WriteFirstLine(s, code), headers)
        b == IF contentLength > 0
             THEN WriteHeader(WriteHeader(a, "Content-Type"), "Content-Length")
             ELSE a
    IN  WriteEndHeader(WriteHeader(WriteHeader(b, "Server"), "Connection"))

\* WriteResponse(code, headers, contentType, contentCharset, content), the
\* content given by its length: every exception ends in 'return False'
WriteResponse(s, code, headers, contentLength) ==
    LET a == WriteBeforeContent(s, code, headers, contentLength)
    IN  Caught(IF contentLength > 0 THEN Write(a, [kind |-> "body", len |-> contentLength])
               ELSE a)

\* len of _errCtnTmpl filled in with the code, its reason phrase and its
\* message (the entries of _responseCodes the server answers with; any other
\* code gets 'Unknown reason' and no message)
ErrorContentLength(code) ==
    LET reason == CASE code = 304 -> 12 [] code = 400 -> 11 [] code = 403 -> 9 [] code = 404 -> 9 [] code = 405 -> 18 [] code = 500 -> 21 [] code = 501 -> 15 [] OTHER -> 14
        message == CASE code = 304 -> 41 [] code = 400 -> 40 [] code = 403 -> 48 [] code = 404 -> 29 [] code = 405 -> 46 [] code = 500 -> 28 [] code = 501 -> 38 [] OTHER -> 0
    IN  198 + 3 + reason + message

\* WriteResponseError(code)
WriteResponseError(s, code) == WriteResponse(s, code, <<>>, ErrorContentLength(code))

\* WriteResponseRedirect(location)
WriteResponseRedirect(s) == WriteResponse(s, 302, <<"Location">>, 0)

\* WriteResponseNotFound()
WriteResponseNotFound(s, nfu) ==
    IF nfu # "None" THEN WriteResponseRedirect(s) ELSE WriteResponseError(s, 404)

\* buf = bytearray(1024)
BufLen == 1024

Min(a, b) == IF a < b THEN a ELSE b

RECURSIVE FileLoop(_, _)
\* the while loop of WriteResponseFile: [io, returned]; returned is FALSE
\* when an exception left the loop
FileLoop(s, size) ==
    IF size <= 0 THEN [io |-> s, returned |-> TRUE]
    ELSE LET x == Min(size, BufLen)
             a == IF s.readFail > 0 /\ s.fileReads + 1 >= s.readFail
                  THEN Raise([s EXCEPT !.fileReads = @ + 1])
                  ELSE [s EXCEPT !.fileReads = @ + 1]
             b == Write(a, [kind |-> "body", len |-> x])
         IN  IF b.exc THEN [io |-> b, returned |-> FALSE]
             ELSE FileLoop(b, size - x)

\* WriteResponseFile(filepath, contentType, headers) for a file of that size
WriteResponseFile(s, size, headers, nfu) ==
    IF size > 0
    THEN LET a == WriteBeforeContent(s, 200, headers, size)
         IN  IF a.exc THEN WriteResponseNotFound(Caught(a), nfu)
             ELSE LET r == FileLoop(a, size)
                  IN  IF r.returned THEN r.io
                      ELSE WriteResponseError(Caught(r.io), 500)
    ELSE WriteResponseNotFound(s, nfu)

----------------------------------------------------------------------------
(* Request: MicroWebSrv._client *)

LowerCase == <<"a", "b", "c", "d", "e", "f", "g", "h", "i", "j", "k", "l", "m", "n", "o", "p", "q", "r", "s", "t", "u", "v", "w", "x", "y", "z">>
UpperCase == <<"A", "B", "C", "D", "E", "F", "G", "H", "I", "J", "K", "L", "M", "N", "O", "P", "Q", "R", "S", "T", "U", "V", "W", "X", "Y", "Z">>

LowerChar(c) ==
    IF \E i \in 1 .. 26 : UpperCase[i] = c
    THEN LowerCase[CHOOSE i \in 1 .. 26 : UpperCase[i] = c]
    ELSE c

\* str.lower()
Lower(s) == [i \in 1 .. Len(s) |-> LowerChar(s[i])]

\* sub in s
Contains(s, sub) ==
    \E i \in 1 .. (Len(s) - Len(sub) + 1) : SubSeq(s, i, i + Len(sub) - 1) = sub

\* str.endswith(suffix)
EndsWithStr(s, suffix) ==
    Len(s) >= Len(suffix) /\ SubSeq(s, Len(s) - Len(suffix) + 1, Len(s)) = suffix

RECURSIVE Replace(_, _, _)
\* str.replace(old, new): the occurrences of old read from the left, not
\* overlapping, each replaced once
Replace(s, old, new) ==
    IF Len(s) < Len(old) THEN s
    ELSE IF SubSeq(s, 1, Len(old)) = old
    THEN new \o Replace(SubSeq(s, Len(old) + 1, Len(s)), old, new)
    ELSE <<s[1]>> \o Replace(Tail(s), old, new)

\* int(r[i][:2], 16) then bytes([..]), on the escapes that occur
Unhex(pair) ==
    IF Lower(pair) = <<"2", "e">> THEN <<".">>
    ELSE IF Lower(pair) = <<"2", "f">> THEN <<"/">>
    ELSE IF pair = <<"2", "0">> THEN <<" ">>
    ELSE <<>>

RECURSIVE UnquoteParts(_)
UnquoteParts(r) ==
    IF r = <<>> THEN <<>>
    ELSE LET p == Head(r)
             c == Unhex(SubSeq(p, 1, Min(2, Len(p))))
         IN  (IF c # <<>> THEN c \o SubSeq(p, 3, Len(p)) ELSE <<"%">> \o p)
             \o UnquoteParts(Tail(r))

\* MicroWebSrv._unquote(s)
Unquote(s) == LET r == Split(s, "%") IN r[1] \o UnquoteParts(Tail(r))

\* MicroWebSrv._unquote_plus(s)
UnquotePlus(s) == Unquote([i \in 1 .. Len(s) |-> IF s[i] = "+" THEN " " ELSE s[i]])

\* str.split(sep, 1)
SplitOnce(s, sep) ==
    IF \E i \in 1 .. Len(s) : s[i] = sep
    THEN LET i == CHOOSE k \in 1 .. Len(s) : s[k] = sep /\ \A j \in 1 .. (k - 1) : s[j] # sep
         IN  <<SubSeq(s, 1, i - 1), SubSeq(s, i + 1, Len(s))>>
    ELSE <<s>>

NotParsed ==
    [ok |-> FALSE, method |-> "None", path |-> <<>>, httpVer |-> "None",
     resPath |-> <<"/">>, queryString |-> <<>>]

\* _parseFirstLine: first is what readline gives, [kind |-> "line"] with the
\* elements of .decode().strip().split(), or [kind |-> "error"] when
\* readline or decode raises
ParseFirstLine(first) ==
    IF first.kind = "line" /\ Len(first.elements) = 3
    THEN LET elements == SplitOnce(first.elements[2], "?")
         IN  [ok |-> TRUE,
              method |-> Upper(first.elements[1]),
              path |-> first.elements[2],
              httpVer |-> first.elements[3],
              resPath |-> UnquotePlus(elements[1]),
              queryString |-> IF Len(elements) > 1 THEN elements[2] ELSE <<>>]
    ELSE NotParsed

\* the header names that occur, lower-cased
LowerName(name) ==
    IF name = "Content-Length" THEN "content-length"
    ELSE IF name = "Connection" THEN "connection"
    ELSE IF name = "Upgrade" THEN "upgrade"
    ELSE IF name = "If-Modified-Since" THEN "if-modified-since"
    ELSE name

NoHeaders == [n \in {} |-> <<>>]

\* self._headers.get(name, default)
Get(headers, name, default) == IF name \in DOMAIN headers THEN headers[name] ELSE default

\* int(value): digits, with an optional sign
IntOk(value) ==
    \/ IsNumeric(value)
    \/ Len(value) > 1 /\ value[1] = "-" /\ IsNumeric(Tail(value))

IntOf(value) == IF value[1] = "-" THEN 0 - ToInt(Tail(value)) ELSE ToInt(value)

\* mutant: the content length of every method is kept
HasContent_AnyMethod(method) == TRUE

\* the methods whose content-length and content-type _parseHeader keeps
HasContent(method) == method = "POST" \/ method = "PUT"

RECURSIVE ParseHeaderFrom(_, _, _, _)
\* the loop of _parseHeader: a line is [kind |-> "header"] (split(':', 1)
\* gave two elements), "blank", "text" (one element, not empty) or "error"
\* (readline or decode raises); past the last line readline gives b''
ParseHeaderFrom(lines, i, headers, method) ==
    LET kind == IF i > Len(lines) THEN "blank" ELSE lines[i].kind
        end(result, n) == [result |-> result, headers |-> headers,
                           readlines |-> i, contentLength |-> n]
    IN  IF kind = "header"
        THEN ParseHeaderFrom(lines, i + 1,
                 (LowerName(lines[i].name) :> lines[i].value) @@ headers, method)
        ELSE IF kind = "blank"
        THEN IF HasContent(method)
             THEN LET value == Get(headers, "content-length", <<"0">>)
                  IN  IF IntOk(value) THEN end("ok", IntOf(value))
                      ELSE end("raised", 0)
             ELSE end("ok", 0)
        ELSE IF kind = "text" THEN end("bad", 0)
        ELSE end("raised", 0)

\* _parseHeader(response)
ParseHeader(lines, method) == ParseHeaderFrom(lines, 1, NoHeaders, method)

\* _getConnUpgrade()
GetConnUpgrade(headers) ==
    IF Contains(Lower(Get(headers, "connection", <<>>)), <<"u", "p", "g", "r", "a", "d", "e">>)
    THEN [none |-> FALSE, value |-> Lower(Get(headers, "upgrade", <<>>))]
    ELSE [none |-> TRUE, value |-> <<>>]

\* ReadRequestContent(size) with size given
ReadRequestContentOf(s, size) ==
    IF size > 0 THEN [s EXCEPT !.reads = Append(@, size)] ELSE s

\* ReadRequestContent(): size is None
ReadRequestContent(s, contentLength) == ReadRequestContentOf(s, contentLength)

----------------------------------------------------------------------------
(* Static files: _physPathFromURLPath and the GET branch of _processRequest *)

\* MicroWebSrv._webPath
webPath == <<"/", "f", "l", "a", "s", "h", "/", "w", "w", "w">>

\* MicroWebSrv._indexPages
indexPages ==
    << <<"i", "n", "d", "e", "x", ".", "p", "y", "h", "t", "m", "l">>, <<"i", "n", "d", "e", "x", ".", "h", "t", "m", "l">>, <<"i", "n", "d", "e", "x", ".", "h", "t", "m">>,
       <<"d", "e", "f", "a", "u", "l", "t", ".", "p", "y", "h", "t", "m", "l">>, <<"d", "e", "f", "a", "u", "l", "t", ".", "h", "t", "m", "l">>, <<"d", "e", "f", "a", "u", "l", "t", ".", "h", "t", "m">> >>

\* the keys of MicroWebSrv._mimeTypes
mimeTypes ==
    { <<".", "t", "x", "t">>, <<".", "h", "t", "m">>, <<".", "h", "t", "m", "l">>, <<".", "c", "s", "s">>, <<".", "c", "s", "v">>, <<".", "j", "s">>, <<".", "x", "m", "l">>,
      <<".", "x", "h", "t", "m", "l">>, <<".", "j", "s", "o", "n">>, <<".", "z", "i", "p">>, <<".", "p", "d", "f">>, <<".", "t", "s">>, <<".", "w", "o", "f", "f">>, <<".", "w", "o", "f", "f", "2">>,
      <<".", "t", "t", "f">>, <<".", "o", "t", "f">>, <<".", "j", "p", "g">>, <<".", "j", "p", "e", "g">>, <<".", "p", "n", "g">>, <<".", "g", "i", "f">>, <<".", "s", "v", "g">>, <<".", "i", "c", "o">> }

\* MicroWebSrv._fileExists(path): fs maps the paths stat finds to their size
FileExists(fs, path) == path \in DOMAIN fs

\* MicroWebSrv._isPyHTMLFile(filename)
IsPyHTMLFile(filename) == EndsWithStr(Lower(filename), <<".", "p", "y", "h", "t", "m", "l">>)

\* mutant: a file of any type is served
GetMimeTypeFromFilename_Any(filename) == TRUE

\* GetMimeTypeFromFilename(filename) is not None
GetMimeTypeFromFilename(filename) == \E ext \in mimeTypes : EndsWithStr(Lower(filename), ext)

NoPath == [found |-> FALSE, physPath |-> <<>>]

RECURSIVE IndexPageFrom(_, _)
\* the loop over _indexPages: [found, physPath, tried], tried the paths
\* given to stat
IndexPageFrom(fs, k) ==
    IF k > Len(indexPages) THEN NoPath @@ [tried |-> <<>>]
    ELSE LET physPath == webPath \o <<"/">> \o indexPages[k]
         IN  IF FileExists(fs, physPath)
             THEN [found |-> TRUE, physPath |-> physPath, tried |-> <<physPath>>]
             ELSE LET r == IndexPageFrom(fs, k + 1)
                  IN  [r EXCEPT !.tried = <<physPath>> \o @]

\* the physical path of a url path other than '/'
PhysPathOf(urlPath) == webPath \o Replace(urlPath, <<".", ".", "/">>, <<"/">>)

\* MicroWebSrv._physPathFromURLPath(urlPath)
PhysPathFromURLPath(fs, urlPath) ==
    IF urlPath = <<"/">> THEN IndexPageFrom(fs, 1)
    ELSE LET physPath == PhysPathOf(urlPath)
         IN  IF FileExists(fs, physPath)
             THEN [found |-> TRUE, physPath |-> physPath, tried |-> <<physPath>>]
             ELSE NoPath @@ [tried |-> <<physPath>>]

\* MicroWebSrv.LetCacheStaticContentLevel
LetCacheStaticContentLevel == 2

\* WriteResponsePyHTMLFile(filepath): tmpl is "absent" when MicroWebTemplate
\* is not imported, else how mWebTmpl.Execute ends, "ok" or "raises"
WriteResponsePyHTMLFile(s, tmpl) ==
    IF tmpl = "ok" THEN WriteResponse(s, 200, <<>>, 1)
    ELSE IF tmpl = "raises" THEN WriteResponse(s, 500, <<>>, 239)
    ELSE WriteResponseError(s, 501)

\* the branch 'elif self._method.upper() == "GET"' of _processRequest
ServeFile(s, fs, nfu, tmpl, resPath, headers) ==
    LET r == PhysPathFromURLPath(fs, resPath)
        a == [s EXCEPT !.stats = @ \o r.tried]
    IN  IF r.found
        THEN IF IsPyHTMLFile(r.physPath) THEN WriteResponsePyHTMLFile(a, tmpl)
             ELSE IF GetMimeTypeFromFilename(r.physPath)
             THEN LET b == [a EXCEPT !.stats = Append(@, r.physPath)]
                      size == fs[r.physPath]
                  IN  IF LetCacheStaticContentLevel > 0
                      THEN IF LetCacheStaticContentLevel > 1
                              /\ "if-modified-since" \in DOMAIN headers
                           THEN WriteResponseError(a, 304)
                           ELSE WriteResponseFile(b, size,
                                    <<"Last-Modified", "Cache-Control">>, nfu)
                      ELSE WriteResponseFile(b, size, <<>>, nfu)
             ELSE WriteResponseError(a, 403)
        ELSE WriteResponseNotFound(a, nfu)

----------------------------------------------------------------------------
(* Route handlers: the application's functions, each a list of the calls   *)
(* it makes on the request and the response                                *)

Handlers ==
    [ answer     |-> <<[op |-> "WriteResponseJSONOk"]>>,
      answer_on  |-> <<[op |-> "WriteResponseJSONOk"]>>,
      read_body  |-> <<[op |-> "ReadRequestContent"], [op |-> "WriteResponseJSONOk"]>>,
      peek       |-> <<[op |-> "ReadRequestContent", size |-> 1],
                       [op |-> "WriteResponseJSONOk"]>>,
      raises     |-> <<[op |-> "raise"]>>,
      late_raise |-> <<[op |-> "WriteResponseJSONOk"], [op |-> "raise"]>>,
      silent     |-> <<>> ]

\* one call of a handler
HandlerStep(s, contentLength, step) ==
    IF s.exc THEN s
    ELSE IF step.op = "raise" THEN Raise(s)
    ELSE IF step.op = "WriteResponseJSONOk" THEN WriteResponse(s, 200, <<>>, 4)
    ELSE IF "size" \in DOMAIN step THEN ReadRequestContentOf(s, step.size)
    ELSE ReadRequestContent(s, contentLength)

RECURSIVE RunHandler(_, _, _)
\* routeHandler(self, response, routeArgs)
RunHandler(s, contentLength, steps) ==
    IF steps = <<>> THEN s
    ELSE RunHandler(HandlerStep(s, contentLength, Head(steps)), contentLength, Tail(steps))

----------------------------------------------------------------------------
(* Connection handler: _client._processRequest *)

\* mutant: no except clause, the exception leaves _processRequest
ExceptClause_Missing(s) == s

\* the except clause of _processRequest
ExceptClause(s) == IF s.exc THEN WriteResponseError(Caught(s), 500) ELSE s

\* mutant: the socket is closed again
Close_Twice(s) == [s EXCEPT !.closes = @ + 2]

\* self._socket.close(), in a try of its own (on MicroPython _socketfile is
\* the socket itself)
Close(s) == [s EXCEPT !.closes = @ + 1]

\* _processRequest for the connection whose input is req; ws is TRUE when a
\* request to upgrade to a websocket is accepted (MicroWebSocket is imported
\* and AcceptWebSocketCallback is set)
ProcessRequest(rhs, nfu, fs, ws, req) ==
    LET s0 == NewIO(req.failAt, req.readFail)
        f == ParseFirstLine(req.first)
        h == IF f.ok THEN ParseHeader(req.lines, f.method)
             ELSE [result |-> "none", headers |-> NoHeaders,
                   readlines |-> 0, contentLength |-> 0]
        upg == GetConnUpgrade(h.headers)
        rt == IF h.result = "ok" /\ (upg.none \/ upg.value = <<>>)
              THEN GetRouteHandler(rhs, f.resPath, f.method)
              ELSE NoRoute
        try ==
            IF ~f.ok THEN [branch |-> "no request", io |-> s0]
            ELSE IF h.result = "raised" THEN [branch |-> "header raised", io |-> Raise(s0)]
            ELSE IF h.result = "bad"
            THEN [branch |-> "bad header", io |-> WriteResponseError(s0, 400)]
            ELSE IF upg.none \/ upg.value = <<>>
            THEN IF rt.func # "None"
                 THEN [branch |-> "route",
                       io |-> RunHandler(s0, h.contentLength, Handlers[rt.func])]
                 ELSE IF Upper(f.method) = "GET"
                 THEN [branch |-> "file",
                       io |-> ServeFile(s0, fs, nfu, req.tmpl, f.resPath, h.headers)]
                 ELSE [branch |-> "method", io |-> WriteResponseError(s0, 405)]
            ELSE IF upg.value = <<"w", "e", "b", "s", "o", "c", "k", "e", "t">> /\ ws
            THEN [branch |-> "websocket", io |-> s0]
            ELSE [branch |-> "upgrade", io |-> WriteResponseError(s0, 501)]
        handled == ExceptClause(try.io)
        io == IF try.branch = "websocket" /\ ~try.io.exc THEN handled ELSE Close(handled)
    IN  [phase |-> "done", req |-> req,
         method |-> f.method, resPath |-> f.resPath, headers |-> h.headers,
         contentLength |-> h.contentLength,
         readlines |-> 1 + h.readlines,
         branch |-> try.branch, func |-> rt.func, routeArgs |-> rt.routeArgs,
         raised |-> try.io.exc,
         wire |-> io.wire, reads |-> io.reads, stats |-> io.stats,
         closes |-> io.closes, escaped |-> io.exc]

----------------------------------------------------------------------------
(* The server's configurations and the requests it is sent *)

Routes1 ==
    << << <<"/", "r", "/", "<", "c", ">", "/", "<", "a", ">">>, "GET", "answer" >>,
       << <<"/", "r", "/", "<", "c", ">", "/", "o", "n">>, "GET", "answer_on" >>,
       << <<"/", "t">>, "POST", "read_body" >>,
       << <<"/", "t">>, "GET", "raises" >>,
       << <<"/", "w">>, "GET", "late_raise" >>,
       << <<"/", "q">>, "POST", "peek" >>,
       << <<"/", "q">>, "GET", "read_body" >>,
       << <<"/", "z">>, "GET", "silent" >>,
       << <<"/", "g">>, "get", "answer" >>,
       << <<"/", "s", ".", "j">>, "GET", "answer" >> >>

Routes2 ==
    << << <<"/", "r", "/", "<", "c", ">", "/", "o", "n">>, "GET", "answer_on" >>,
       << <<"/", "r", "/", "<", "c", ">", "/", "<", "a", ">">>, "GET", "answer" >>,
       << <<"/">>, "GET", "answer" >>,
       << <<"/", "<", "x", ">">>, "GET", "silent" >>,
       << <<"/", "t">>, "POST", "late_raise" >> >>

Files1 ==
    (webPath \o <<"/", "a", ".", "t", "x", "t">> :> 5) @@ (webPath \o <<"/", "b", ".", "t", "x", "t">> :> BufLen + 6)
    @@ (webPath \o <<"/", "e", ".", "t", "x", "t">> :> 0) @@ (webPath \o <<"/", "x", ".", "b", "i", "n">> :> 7)
    @@ (webPath \o <<"/", "p", ".", "p", "y", "h", "t", "m", "l">> :> 9) @@ (webPath \o <<"/", "i", "n", "d", "e", "x", ".", "h", "t", "m">> :> 5)

NoFiles == [p \in {} |-> 0]

\* the servers constructed: routes, SetNotFoundPageUrl, the files under the
\* web root, AcceptWebSocketCallback
Servers ==
    { [routes |-> Routes1, notFoundUrl |-> "None", www |-> Files1, ws |-> "None"],
      [routes |-> Routes2, notFoundUrl |-> "/", www |-> Files1, ws |-> "accept"],
      [routes |-> <<>>, notFoundUrl |-> "None", www |-> NoFiles, ws |-> "accept"] }

MethodInputs == {"GET", "get", "POST", "DELETE"}

PathInputs ==
    { <<"/", "r", "/", "1", "/", "o", "n">>, <<"/", "r", "/", "1", "/", "o", "n", "/">>, <<"/", "r", "/", "x", "-", "y", "/", "o", "n">>, <<"/", "r", "/", "1">>, <<"/", "r", "/", "1", "2", "/", "o", "f", "f">>,
      <<"/", "t">>, <<"/", "t", "?", "q", "=", "1">>, <<"/", "w">>, <<"/", "q">>, <<"/", "z">>, <<"/">>,
      <<"/", "g">>, <<"/", "T">>, <<"/", "s", ".", "j">>, <<"/", "s", "x", "j">>, <<"/", "r", "/", "/", "o", "n">>,
      <<"/", "a", ".", "t", "x", "t">>, <<"/", "b", ".", "t", "x", "t">>, <<"/", "e", ".", "t", "x", "t">>, <<"/", "x", ".", "b", "i", "n">>, <<"/", "p", ".", "p", "y", "h", "t", "m", "l">>, <<"/", "n", "o", "n", "e">>,
      <<"/", ".", ".", "/", "a", ".", "t", "x", "t">>, <<"/", ".", ".", ".", ".", "/", "/", "a", ".", "t", "x", "t">>, <<"/", "a", "/", ".", ".">>, <<"/", "%", "2", "e", "%", "2", "e", "/", "a", ".", "t", "x", "t">> }

Line(method, path) == [kind |-> "line", elements |-> <<method, path, "HTTP/1.1">>]

Header(name, value) == [kind |-> "header", name |-> name, value |-> value]

Blank == [kind |-> "blank", name |-> "", value |-> <<>>]

\* a line that is not blank and has no colon
Text == [kind |-> "text", name |-> "", value |-> <<>>]

\* readline raises (the socket timed out) or the line does not decode
Unreadable == [kind |-> "error", name |-> "", value |-> <<>>]

HeaderInputs ==
    { <<Blank>>,
      <<>>,
      <<Header("content-length", <<"2">>), Blank>>,
      <<Header("Content-Length", <<"0">>), Blank>>,
      <<Header("Content-Length", <<"x">>), Blank>>,
      <<Header("Content-Length", <<"2">>), Text, Blank>>,
      <<Text>>,
      <<Unreadable>>,
      <<Header("Connection", <<"U", "p", "g", "r", "a", "d", "e">>), Header("Upgrade", <<"w", "e", "b", "s", "o", "c", "k", "e", "t">>), Blank>>,
      <<Header("Connection", <<"k", "e", "e", "p", "-", "a", "l", "i", "v", "e", ",", " ", "U", "p", "g", "r", "a", "d", "e">>), Header("Upgrade", <<"h", "2", "c">>), Blank>>,
      <<Header("Connection", <<"u", "p", "g", "r", "a", "d", "e">>), Blank>>,
      <<Header("If-Modified-Since", <<"x">>), Blank>> }

Request(first, lines, failAt, readFail, tmpl) ==
    [first |-> first, lines |-> lines, failAt |-> failAt, readFail |-> readFail,
     tmpl |-> tmpl]

\* the connections: every method and path; the headers; a peer that goes
\* away at some write; a file that cannot be read; template files; request
\* lines that do not parse
RequestInputs ==
    {Request(Line(m, p), <<Blank>>, 0, 0, "absent") :
        m \in MethodInputs, p \in PathInputs}
    \cup
    {Request(Line(m, p), h, 0, 0, "absent") :
        m \in {"GET", "POST"}, p \in {<<"/", "r", "/", "1", "/", "o", "n">>, <<"/", "t">>, <<"/", "q">>, <<"/", "a", ".", "t", "x", "t">>, <<"/", "n", "o", "n", "e">>},
        h \in HeaderInputs}
    \cup
    {Request(Line("GET", p), <<Blank>>, n, 0, "absent") :
        p \in {<<"/", "r", "/", "1", "/", "o", "n">>, <<"/", "t">>, <<"/", "w">>, <<"/", "a", ".", "t", "x", "t">>, <<"/", "b", ".", "t", "x", "t">>, <<"/", "n", "o", "n", "e">>},
        n \in {1, 5, 9, 10}}
    \cup
    {Request(Line("GET", p), <<Blank>>, 0, n, "absent") :
        p \in {<<"/", "a", ".", "t", "x", "t">>, <<"/", "b", ".", "t", "x", "t">>}, n \in {1, 2}}
    \cup
    {Request(Line("GET", <<"/", "p", ".", "p", "y", "h", "t", "m", "l">>), <<Blank>>, 0, 0, t) : t \in {"ok", "raises"}}
    \cup
    {Request(f, <<Blank>>, 0, 0, "absent") :
        f \in { [kind |-> "line", elements |-> <<>>],
                [kind |-> "line", elements |-> <<"GET", <<"/", "t">>>>],
                [kind |-> "line", elements |-> <<"GET", <<"/", "t">>, "HTTP/1.1", "x">>],
                [kind |-> "error", elements |-> <<>>] }}

NoClient == [phase |-> "none"]

\* the HTTP server is not part of the behaviour
WebIdle ==
    /\ routeHandlers = <<>>
    /\ notFoundUrl = "None"
    /\ www = NoFiles
    /\ AcceptWebSocketCallback = "None"
    /\ serverProcess = "none"
    /\ client = NoClient

----------------------------------------------------------------------------
(* Initial state: the controller constructed on an existing file system *)

\* a list longer than max_tasks, as a file written under a larger limit holds
OverLimitTasks ==
    [i \in 1 .. (max_tasks + 1) |->
        Task("2024-12-25", "9:59", "pump2", IF i = 1 THEN 0 ELSE MaxDuration)]

\* the storage file found at start-up: none, an empty (unparsable) one, one
\* holding a task, one holding more than max_tasks tasks
InitFiles ==
    { NoFile,
      FileOf(<<>>),
      FileOf(Dump(<<Task("2024-12-25", "10:00", "pump1", MaxDuration)>>)),
      FileOf(Dump(OverLimitTasks)) }

\* ESP32Controller.__init__: every switched device False, the servo at its
\* default angle
InitDeviceStatus ==
    [d \in DeviceNames |-> IF d = "servo" THEN ServoAngle ELSE FALSE]

\* RelayController.__init__: every relay OFF (HIGH)
InitRelays == [ch \in Channels |-> 1]

NoTimers == [d \in {} |-> 0]

Init ==
    /\ file \in InitFiles
    /\ tasks = LoadTasks(file)
    /\ clock = 0
    /\ relays = InitRelays
    /\ device_status = InitDeviceStatus
    /\ auto_off_timers = NoTimers
    /\ timers = {}
    /\ faults = 0
    /\ WebIdle
    /\ task_timer = StartTaskScheduler(NewTimer)
    /\ main = NoOperation
    /\ held = NoList
    /\ last = [op |-> "init"]

----------------------------------------------------------------------------
(* Actions *)

\* the outcomes of the save drawn for the list ts: a failure only where the
\* specification injects them (faulty) and its budget is not used up
Outcomes(ts, faulty) ==
    {SaveOk(ts)} \cup (IF faulty /\ faults < MaxFaults THEN SaveFailures(ts) ELSE {})

Failed(saved, o) == IF saved /\ o.kind # "ok" THEN 1 ELSE 0

\* TaskManager.add_task(date, time, device, duration) called with one of
\* the tasks of inputs
AddTaskFrom(inputs, faulty) ==
    \E task \in inputs : \E o \in Outcomes(Append(tasks, task), faulty) :
        LET r == AddTaskResult(tasks, file, task, o)
        IN  /\ tasks' = r.tasks
            /\ file' = r.file
            /\ last' = [op |-> "add", raised |-> r.raised,
                        save |-> IF r.raised THEN "none" ELSE o.kind]
            /\ faults' = faults + Failed(~r.raised, o)
            /\ UNCHANGED <<clock, deviceVars, webVars, task_timer, threadVars>>

AddTask(faulty) == AddTaskFrom(TaskInputs, faulty)

\* TaskManager.delete_task(index)
DeleteTask(faulty) ==
    \E index \in IndexInputs :
    \E o \in Outcomes(DeleteTaskResult(tasks, file, index, SaveOk(tasks)).tasks, faulty) :
        LET r == DeleteTaskResult(tasks, file, index, o)
        IN  /\ tasks' = r.tasks
            /\ file' = r.file
            /\ last' = [op |-> "delete", index |-> index, result |-> r.result,
                        save |-> IF r.result THEN o.kind ELSE "none"]
            /\ faults' = faults + Failed(r.result, o)
            /\ UNCHANGED <<clock, deviceVars, webVars, task_timer, threadVars>>

\* ESP32Controller.check_scheduled_tasks(timer), one firing of the periodic timer
Tick(faulty) ==
    /\ task_timer.armed
    /\ task_timer' = AfterCallback(task_timer)
    /\ LET i == FirstMatch(tasks, clock)
       IN
        IF i < 0
        THEN /\ last' = [op |-> "tick", fired |-> FALSE]
             /\ UNCHANGED <<storeVars, clock, deviceVars, faults, webVars, threadVars>>
        ELSE \E o \in Outcomes(RemoveAt(tasks, i), faulty) :
             LET task == tasks[i + 1]
                 x == ExecuteTask(relays, device_status, auto_off_timers, timers, task)
                 r == DeleteTaskResult(tasks, file, i, o)
             IN  /\ relays' = x.relays
                 /\ device_status' = x.device_status
                 /\ auto_off_timers' = x.auto_off_timers
                 /\ timers' = x.timers
                 /\ tasks' = r.tasks
                 /\ file' = r.file
                 /\ last' = [op |-> "tick", fired |-> TRUE, index |-> i, task |-> task,
                             rearmed |-> task.device \in DOMAIN auto_off_timers,
                             save |-> o.kind]
                 /\ faults' = faults + Failed(TRUE, o)
                 /\ UNCHANGED <<clock, webVars, threadVars>>

\* check_scheduled_tasks when one of its statements raises
TickRaises ==
    /\ task_timer.armed
    /\ faults < MaxFaults
    /\ \E at \in RaisePoints :
        LET r == TickExcept(TickUntil(tasks, file, clock, relays, device_status,
                                      auto_off_timers, timers, at))
        IN  /\ r.reached
            /\ tasks' = r.tasks
            /\ file' = r.file
            /\ relays' = r.relays
            /\ device_status' = r.device_status
            /\ auto_off_timers' = r.auto_off_timers
            /\ timers' = r.timers
            /\ task_timer' = AfterCallback(task_timer)
            /\ faults' = faults + 1
            /\ last' = [op |-> "tick", fired |-> r.fired, raised |-> at,
                        escaped |-> r.exc]
            /\ UNCHANGED <<clock, webVars, threadVars>>

\* an armed one-shot auto-off timer expires and runs its callback
TimerFire ==
    \E t \in timers :
        LET x == AutoOffCallback(relays, device_status, auto_off_timers,
                                 t.device, t.channel)
        IN  /\ timers' = timers \ {t}
            /\ relays' = x.relays
            /\ device_status' = x.device_status
            /\ auto_off_timers' = x.auto_off_timers
            /\ last' = [op |-> "fire", device |-> t.device, channel |-> t.channel]
            /\ UNCHANGED <<storeVars, clock, faults, webVars, task_timer, threadVars>>

\* a minute passes on the wall clock
AdvanceClock ==
    /\ clock < MaxClock
    /\ clock' = clock + 1
    /\ last' = [op |-> "clock"]
    /\ UNCHANGED <<storeVars, deviceVars, faults, webVars, task_timer, threadVars>>

\* the board restarts: a new controller, relay controller and TaskManager
\* are constructed on the same file
Restart ==
    /\ tasks' = LoadTasks(file)
    /\ relays' = InitRelays
    /\ device_status' = InitDeviceStatus
    /\ auto_off_timers' = NoTimers
    /\ timers' = {}
    /\ last' = [op |-> "restart"]
    /\ UNCHANGED <<file, clock, faults, webVars, task_timer, threadVars>>

\* the controller while every write of the storage file succeeds
Next ==
    \/ AddTask(FALSE)
    \/ DeleteTask(FALSE)
    \/ Tick(FALSE)
    \/ TimerFire
    \/ AdvanceClock
    \/ Restart

Spec == Init /\ [][Next]_vars

\* the Task Store with writes of the storage file that may fail
NextStore ==
    \/ AddTask(TRUE)
    \/ DeleteTask(TRUE)
    \/ Restart

SpecStore == Init /\ [][NextStore]_vars

\* a smaller choice of tasks add_task is called with: two devices in two
\* successive minutes
FewTaskInputs ==
    { Task("2024-12-25", "09:59", "pump1", MaxDuration),
      Task("2024-12-25", "10:00", "pump3", MaxDuration) }

\* The operations of the main thread, one statement at a time:
\* add_task, delete_task and shutdown are run by the main thread (the asyncio
\* loop, or run() after it); the timer callbacks (Tick, TimerFire) are run
\* between two of its statements, each callback from its start to its end.

\* add_task, the test of line 115: ValueError, or on to the append
MainAddStart ==
    /\ main.op = "none"
    /\ \E task \in FewTaskInputs :
        IF Len(tasks) >= max_tasks
        THEN /\ main' = NoOperation
             /\ last' = [op |-> "main", of |-> "add", at |-> "raise"]
        ELSE /\ main' = [op |-> "add", pc |-> "append", task |-> task]
             /\ last' = [op |-> "main", of |-> "add", at |-> "check"]
    /\ UNCHANGED <<storeVars, clock, deviceVars, faults, webVars, task_timer, held>>

\* add_task, line 125 (append) and then line 126 (_save_tasks)
MainAddStep ==
    /\ main.op = "add"
    /\ IF main.pc = "append"
       THEN /\ tasks' = Append(tasks, main.task)
            /\ file' = file
            /\ main' = [main EXCEPT !.pc = "save"]
       ELSE /\ tasks' = tasks
            /\ file' = SaveTasks(tasks, file, SaveOk(tasks))
            /\ main' = NoOperation
    /\ last' = [op |-> "main", of |-> "add", at |-> main.pc]
    /\ UNCHANGED <<clock, deviceVars, faults, webVars, task_timer, held>>

\* delete_task, the test of line 148: on to line 149, or False returned
MainDeleteStart ==
    /\ main.op = "none"
    /\ \E index \in IndexInputs :
        IF 0 <= index /\ index < Len(tasks)
        THEN /\ main' = [op |-> "delete", pc |-> "read", index |-> index]
             /\ last' = [op |-> "main", of |-> "delete", at |-> "check"]
        ELSE /\ main' = NoOperation
             /\ last' = [op |-> "main", of |-> "delete", at |-> "invalid"]
    /\ UNCHANGED <<storeVars, clock, deviceVars, faults, webVars, task_timer, held>>

\* delete_task, line 149 (deleted_task = self.tasks[index]), line 150 (del
\* self.tasks[index]) and line 151 (_save_tasks); lines 149 and 150 raise
\* IndexError when the list has become too short for the index
MainDeleteStep ==
    /\ main.op = "delete"
    /\ IF main.pc \in {"read", "del"} /\ main.index >= Len(tasks)
       THEN /\ main' = NoOperation
            /\ last' = [op |-> "main", of |-> "delete", at |-> "raise"]
            /\ UNCHANGED storeVars
       ELSE /\ last' = [op |-> "main", of |-> "delete", at |-> main.pc]
            /\ CASE main.pc = "read" ->
                     /\ main' = [main EXCEPT !.pc = "del"]
                     /\ UNCHANGED storeVars
                 [] main.pc = "del" ->
                     /\ tasks' = RemoveAt(tasks, main.index)
                     /\ file' = file
                     /\ main' = [main EXCEPT !.pc = "save"]
                 [] main.pc = "save" ->
                     /\ tasks' = tasks
                     /\ file' = SaveTasks(tasks, file, SaveOk(tasks))
                     /\ main' = NoOperation
    /\ UNCHANGED <<clock, deviceVars, faults, webVars, task_timer, held>>

\* shutdown() is called
ShutdownStart ==
    /\ main.op = "none"
    /\ main' = [op |-> "shutdown", pc |-> "off_all", ch |-> 0, visited |-> {},
                keys |-> {}]
    /\ last' = [op |-> "main", of |-> "shutdown", at |-> "call"]
    /\ UNCHANGED <<storeVars, clock, deviceVars, faults, webVars, task_timer, held>>

\* shutdown, one statement:
\*   off_all     one pass of the loop of RelayController.off_all (line 402)
\*   deinit      one pass of the loop over auto_off_timers.values() (lines
\*               406-407); when a callback has changed the dict since the
\*               loop began, the iterator may also miss what is left of it
\*   clear       auto_off_timers.clear() (line 408)
\*   task_timer  task_timer.deinit() (lines 411-412)
ShutdownStep ==
    /\ main.op = "shutdown"
    /\ main.pc # "done"
    /\ last' = [op |-> "main", of |-> "shutdown", at |-> main.pc]
    /\ CASE main.pc = "off_all" ->
             /\ relays' = RelayOff(relays, main.ch)
             /\ main' = IF main.ch + 1 \in Channels
                        THEN [main EXCEPT !.ch = @ + 1]
                        ELSE [main EXCEPT !.pc = "deinit",
                                          !.keys = DOMAIN auto_off_timers]
             /\ UNCHANGED <<device_status, auto_off_timers, timers, task_timer>>
         [] main.pc = "deinit" ->
             /\ \/ \E d \in DOMAIN auto_off_timers \ main.visited :
                      /\ timers' = Deinit(timers, d, auto_off_timers[d])
                      /\ main' = [main EXCEPT !.visited = @ \cup {d}]
                \/ /\ \/ DOMAIN auto_off_timers \subseteq main.visited
                      \/ DOMAIN auto_off_timers # main.keys
                   /\ timers' = timers
                   /\ main' = [main EXCEPT !.pc = "clear"]
             /\ UNCHANGED <<relays, device_status, auto_off_timers, task_timer>>
         [] main.pc = "clear" ->
             /\ auto_off_timers' = NoTimers
             /\ main' = [main EXCEPT !.pc = "task_timer"]
             /\ UNCHANGED <<relays, device_status, timers, task_timer>>
         [] main.pc = "task_timer" ->
             /\ task_timer' = StopTimer(task_timer)
             /\ main' = [main EXCEPT !.pc = "done"]
             /\ UNCHANGED <<relays, device_status, auto_off_timers, timers>>
    /\ UNCHANGED <<storeVars, clock, faults, webVars, held>>

\* TaskManager.get_tasks(): the caller is handed self.tasks
GetTasksCall ==
    /\ held' = GetTasks(tasks)
    /\ last' = [op |-> "get_tasks"]
    /\ UNCHANGED <<storeVars, clock, deviceVars, faults, webVars, task_timer, main>>

\* the caller removes the first element of the list it holds
CallerPops ==
    /\ held.taken
    /\ ListOf(held, tasks) # <<>>
    /\ tasks' = IF held.alias THEN Tail(tasks) ELSE tasks
    /\ held' = IF held.alias THEN held ELSE [held EXCEPT !.own = Tail(@)]
    /\ last' = [op |-> "caller"]
    /\ UNCHANGED <<file, clock, deviceVars, faults, webVars, task_timer, main>>

\* the storage files an earlier run of the controller left: every list of
\* at most two of the tasks add_task is called with
StoredFiles ==
    {FileOf(Dump(ts)) :
        ts \in {<<>>} \cup {<<t>> : t \in TaskInputs}
                \cup {<<t, u>> : t \in TaskInputs, u \in TaskInputs}}

\* the controller constructed on one of these files, its scheduler started
InitStored ==
    /\ file \in StoredFiles
    /\ tasks = LoadTasks(file)
    /\ clock = 0
    /\ relays = InitRelays
    /\ device_status = InitDeviceStatus
    /\ auto_off_timers = NoTimers
    /\ timers = {}
    /\ faults = 0
    /\ WebIdle
    /\ task_timer = StartTaskScheduler(NewTimer)
    /\ main = NoOperation
    /\ held = NoList
    /\ last = [op |-> "init"]

\* the scheduler with statements of the tick that may raise
NextRaise ==
    \/ Tick(FALSE)
    \/ TickRaises
    \/ TimerFire
    \/ AdvanceClock

SpecRaise == InitStored /\ [][NextRaise]_vars

\* the Task Store and the scheduler with writes of the storage file that
\* may fail
NextPersist ==
    \/ AddTaskFrom(FewTaskInputs, TRUE)
    \/ DeleteTask(TRUE)
    \/ Tick(TRUE)
    \/ AdvanceClock

SpecPersist == Init /\ [][NextPersist]_vars

\* the controller with the operations of the main thread taken one statement
\* at a time, the timer callbacks running between them
NextMain ==
    \/ MainAddStart
    \/ MainAddStep
    \/ MainDeleteStart
    \/ MainDeleteStep
    \/ ShutdownStart
    \/ ShutdownStep
    \/ Tick(FALSE)
    \/ TimerFire
    \/ AdvanceClock

SpecMain == InitStored /\ [][NextMain]_vars

\* the Task Store and the scheduler with a caller that holds the list
\* get_tasks returned
NextList ==
    \/ GetTasksCall
    \/ CallerPops
    \/ AddTask(FALSE)
    \/ DeleteTask(FALSE)
    \/ Tick(FALSE)
    \/ AdvanceClock

SpecList == InitStored /\ [][NextList]_vars

----------------------------------------------------------------------------
(* The accept loop: MicroWebSrv.Start and _serverProcess *)

\* MicroWebSrv(routeHandlers, ...) constructed and configured
InitWeb ==
    /\ \E srv \in Servers :
        /\ routeHandlers = CompileRoutes(srv.routes)
        /\ notFoundUrl = srv.notFoundUrl
        /\ www = srv.www
        /\ AcceptWebSocketCallback = srv.ws
    /\ serverProcess = "none"
    /\ client = NoClient
    /\ file = NoFile
    /\ tasks = <<>>
    /\ clock = 0
    /\ relays = InitRelays
    /\ device_status = InitDeviceStatus
    /\ auto_off_timers = NoTimers
    /\ timers = {}
    /\ faults = 0
    /\ task_timer = NewTimer
    /\ main = NoOperation
    /\ held = NoList
    /\ last = [op |-> "init"]

schedulerVars == <<storeVars, clock, deviceVars, faults, task_timer, threadVars>>
serverVars == <<routeHandlers, notFoundUrl, www, AcceptWebSocketCallback>>

\* Start(): the server socket listens and _serverProcess runs
Start ==
    /\ serverProcess \in {"none", "ended"}
    /\ serverProcess' = "accept"
    /\ last' = [op |-> "start"]
    /\ UNCHANGED <<schedulerVars, serverVars, client>>

\* self._server.accept() returns a connection, with the request the peer sends
\* on it
Accept ==
    /\ serverProcess = "accept"
    /\ \E req \in RequestInputs :
        client' = [phase |-> "accepted", req |-> req]
    /\ serverProcess' = "client"
    /\ last' = [op |-> "accept",
                afterRaise |-> client.phase = "done" /\ client.raised]
    /\ UNCHANGED <<schedulerVars, serverVars>>

\* self._server.accept() raises: errno 113 ends the loop, any other is ignored
AcceptRaises ==
    /\ serverProcess = "accept"
    /\ \E errno \in {113, 110} :
        /\ serverProcess' = IF errno = 113 THEN "ended" ELSE "accept"
        /\ last' = [op |-> "accept raises", errno |-> errno]
    /\ UNCHANGED <<schedulerVars, serverVars, client>>

\* self._client(self, client, cliAddr): the connection is handled to its end;
\* an exception that leaves it ends _serverProcess
Client ==
    /\ serverProcess = "client"
    /\ client' = ProcessRequest(routeHandlers, notFoundUrl, www,
                                AcceptWebSocketCallback # "None", client.req)
    /\ serverProcess' = IF client'.escaped THEN "raised" ELSE "accept"
    /\ last' = [op |-> "client", afterRaise |-> last.afterRaise]
    /\ UNCHANGED <<schedulerVars, serverVars>>

NextWeb ==
    \/ Start
    \/ Accept
    \/ AcceptRaises
    \/ Client

SpecWeb == InitWeb /\ [][NextWeb]_vars

----------------------------------------------------------------------------
(* Vocabulary of the properties *)

\* the armed timers made for device d
LiveTimers(d) == {t \in timers : t.device = d}

\* task t is due at minute c: its date and time equal the formatted clock
Due(t, c) == t.date = FormatDate(LocalTime(c)) /\ t.time = FormatTime(LocalTime(c))

\* the positions (from 1) of the tasks of ts due at minute c
DuePositions(ts, c) == {k \in 1 .. Len(ts) : Due(ts[k], c)}

Least(S) == CHOOSE k \in S : \A j \in S : k <= j

\* ts2 is ts1 without its element at position k (from 1), order kept
IsRemoval(ts1, ts2, k) ==
    /\ Len(ts2) = Len(ts1) - 1
    /\ \A j \in 1 .. (k - 1) : ts2[j] = ts1[j]
    /\ \A j \in k .. Len(ts2) : ts2[j] = ts1[j + 1]

\* in state (ds, rel): relay device d is on
IsOn(ds, rel, d) == d \in RelayDevices /\ ds[d] = TRUE /\ rel[ChannelOf(d)] = 0

\* an auto-off timer of the given duration is armed and registered for d
ArmedFor(aot, tms, d, duration) ==
    /\ d \in DOMAIN aot
    /\ \E t \in tms : t.device = d /\ t.id = aot[d] /\ t.period = duration * 1000

\* everything the controller keeps about device d is the same in both states
SameDevice(d) ==
    /\ device_status'[d] = device_status[d]
    /\ (d \in RelayDevices => relays'[ChannelOf(d)] = relays[ChannelOf(d)])
    /\ (d \in DOMAIN auto_off_timers') = (d \in DOMAIN auto_off_timers)
    /\ (d \in DOMAIN auto_off_timers => auto_off_timers'[d] = auto_off_timers[d])
    /\ {t \in timers' : t.device = d} = {t \in timers : t.device = d}

----------------------------------------------------------------------------
(* C1..C5: scheduler tick and auto-off timers, checked under Spec *)

\* C1: in every reachable state each device has at most one armed auto-off
\* timer; right after a tick armed a timer for a device (also when the device
\* already had one) the device has exactly one, and right after a timer fired
\* no other timer is left to switch the device off a second time.
C1_OneLiveTimerPerDevice ==
    /\ \A d \in DeviceNames : Cardinality(LiveTimers(d)) <= 1
    /\ \A t \in timers : t.device \in DeviceNames
    /\ (last.op = "tick" /\ last.fired /\ last.task.device \in RelayDevices)
          => Cardinality(LiveTimers(last.task.device)) = 1
    /\ last.op = "fire" => LiveTimers(last.device) = {}

\* a device was armed while its previous timer was still armed
C1_Witness ==
    /\ last.op = "tick" /\ last.fired /\ last.rearmed
    /\ Cardinality(LiveTimers(last.task.device)) = 1

\* C2 as stated: after a tick at the date and minute of a stored task (the
\* first such task in list order), the task's device is on, an auto-off timer
\* with the task's duration is armed for it and the task is gone; a tick with
\* no due task changes nothing.
C2_Original ==
    [][last'.op = "tick" =>
        IF DuePositions(tasks, clock) = {}
        THEN UNCHANGED <<storeVars, deviceVars>>
        ELSE LET k == Least(DuePositions(tasks, clock))
             IN  /\ IsRemoval(tasks, tasks', k)
                 /\ ArmedFor(auto_off_timers', timers', tasks[k].device,
                             tasks[k].duration)
                 /\ IsOn(device_status', relays', tasks[k].device)]_vars

\* What does hold of a tick (C2 restricted): the same for a first due task
\* whose device is pump1, pump2, pump3 or dcmotor; for any other device the
\* tick only removes the task.
TickExecutesRelayTask ==
    [][last'.op = "tick" =>
        IF DuePositions(tasks, clock) = {}
        THEN UNCHANGED <<storeVars, deviceVars>>
        ELSE LET k == Least(DuePositions(tasks, clock))
             IN  /\ IsRemoval(tasks, tasks', k)
                 /\ IF tasks[k].device \in RelayDevices
                    THEN /\ ArmedFor(auto_off_timers', timers', tasks[k].device,
                                     tasks[k].duration)
                         /\ IsOn(device_status', relays', tasks[k].device)
                    ELSE UNCHANGED deviceVars]_vars

\* a tick has just executed a due task of a relay device
TickExecutesRelayTask_Witness ==
    /\ last.op = "tick" /\ last.fired
    /\ last.task.device \in RelayDevices
    /\ last.task.duration > 0
    /\ IsOn(device_status, relays, last.task.device)
    /\ ArmedFor(auto_off_timers, timers, last.task.device, last.task.duration)
    /\ last.task \notin {tasks[k] : k \in 1 .. Len(tasks)}

\* C3: a tick removes at most one task, and the one it removes is the first
\* due task in list order; every other task, due or not, stays in its relative
\* order, and every device other than the executed task's is untouched.
C3_OneTaskPerTick ==
    [][last'.op = "tick" =>
        /\ Len(tasks') >= Len(tasks) - 1
        /\ (tasks' # tasks =>
              /\ DuePositions(tasks, clock) # {}
              /\ IsRemoval(tasks, tasks', Least(DuePositions(tasks, clock))))
        /\ (tasks' = tasks => DuePositions(tasks, clock) = {})
        /\ \A d \in DeviceNames :
              (DuePositions(tasks, clock) = {}
               \/ d # tasks[Least(DuePositions(tasks, clock))].device)
              => SameDevice(d)]_vars

\* a tick has executed one task and another task due in the same minute,
\* for another device, is still stored and its device still off
C3_Witness ==
    /\ last.op = "tick" /\ last.fired
    /\ \E k \in DuePositions(tasks, clock) :
          /\ tasks[k].device \in RelayDevices
          /\ tasks[k].device # last.task.device
          /\ ~IsOn(device_status, relays, tasks[k].device)

\* C4 as stated: right after a scheduled task of a relay device was executed
\* the device is on and exactly one auto-off timer is armed for it if and
\* only if the task's duration is positive.
C4_Original ==
    (last.op = "tick" /\ last.fired /\ last.task.device \in RelayDevices)
    => /\ IsOn(device_status, relays, last.task.device)
       /\ (Cardinality(LiveTimers(last.task.device)) = 1) = (last.task.duration > 0)
       /\ (last.task.device \in DOMAIN auto_off_timers) = (last.task.duration > 0)

\* C5: when an armed auto-off timer fires, its device is switched off (relay
\* OFF, device_status False), the timer dict has no entry for the device and
\* no timer stays armed for it; every other device is untouched.
C5_FireSwitchesOff ==
    [][last'.op = "fire" =>
        /\ LiveTimers(last'.device) # {}
        /\ device_status'[last'.device] = FALSE
        /\ relays'[last'.channel] = 1
        /\ last'.channel = ChannelOf(last'.device)
        /\ last'.device \notin DOMAIN auto_off_timers'
        /\ {t \in timers' : t.device = last'.device} = {}
        /\ \A d \in DeviceNames \ {last'.device} : SameDevice(d)
        /\ UNCHANGED storeVars]_vars

\* a timer has fired for one device while another device stays on with its
\* own timer armed
C5_Witness ==
    /\ last.op = "fire"
    /\ ~IsOn(device_status, relays, last.device)
    /\ \E d \in RelayDevices \ {last.device} :
          IsOn(device_status, relays, d) /\ LiveTimers(d) # {}

----------------------------------------------------------------------------
(* C6..C10: the Task Store, checked under SpecStore (C7 under Spec) *)

\* C6: add_task on a list that holds max_tasks tasks or more raises the
\* task-limit error and leaves the in-memory list and the file unchanged.
C6_AddAtLimitFails ==
    [][(last'.op = "add" /\ Len(tasks) >= max_tasks) =>
        (last'.raised /\ tasks' = tasks /\ file' = file)]_vars

\* add_task has just been refused on a full list that is saved in the file
C6_Witness ==
    /\ last.op = "add" /\ last.raised
    /\ Len(tasks) = max_tasks
    /\ file.exists /\ LoadTasks(file) = tasks

\* C7 as stated: in every reachable state, the one right after construction
\* on an existing file included, the list holds at most max_tasks tasks.
C7_Original == Len(tasks) <= max_tasks

\* C8: delete_task(i) with i < 0 or i >= length returns False and leaves
\* the list and the file unchanged; otherwise it returns True, the list is the
\* old one without its element at i, order kept, and the file written holds
\* exactly that list, one element shorter.
C8_DeleteByIndex ==
    [][last'.op = "delete" =>
        IF last'.index < 0 \/ last'.index >= Len(tasks)
        THEN ~last'.result /\ tasks' = tasks /\ file' = file
        ELSE /\ last'.result
             /\ IsRemoval(tasks, tasks', last'.index + 1)
             /\ (last'.save = "ok" =>
                   /\ file'.exists
                   /\ Parse(file'.text).ok
                   /\ Parse(file'.text).tasks = tasks'
                   /\ Len(Parse(file'.text).tasks) = Len(tasks) - 1)]_vars

\* delete_task has just been refused for a negative index on a list that
\* holds tasks
C8_Witness ==
    /\ last.op = "delete" /\ ~last.result
    /\ last.index < 0
    /\ Len(tasks) > 0

\* C9: as long as no write of the file has failed, a restart on the same
\* file loads a list equal to the in-memory list before it, in order and in
\* every field.
C9_RestartRoundTrip ==
    [][(last'.op = "restart" /\ faults = 0) => tasks' = tasks]_vars

\* a restart has reloaded a list of several tasks that add_task built
C9_Witness ==
    /\ last.op = "restart" /\ faults = 0
    /\ Len(tasks) >= 2
    /\ \E k \in 1 .. Len(tasks) : tasks[k].device = "servo"
    /\ \E k \in 1 .. Len(tasks) : tasks[k].duration >= 10

\* C10 as stated: when the write of the file fails during add_task or
\* delete_task, the call returns normally, the in-memory list keeps the
\* change and the file keeps its previous content.
C10_Original ==
    [][(last'.op \in {"add", "delete"}
        /\ last'.save \in {"open_failed", "write_failed"}) =>
        /\ tasks' # tasks
        /\ (last'.op = "add" => ~last'.raised)
        /\ (last'.op = "delete" => last'.result)
        /\ file'.text = file.text]_vars

----------------------------------------------------------------------------
(* Scheduler: frame of a tick *)

\* C20: a tick at which no stored task has both the current date and the
\* current time changes nothing: the task list, the storage file, the relays,
\* device_status, auto_off_timers and the armed timers stay as they are.
C20_IdleTickChangesNothing ==
    [][(last'.op = "tick" /\ DuePositions(tasks, clock) = {})
          => UNCHANGED <<storeVars, deviceVars>>]_vars

\* a tick found nothing due while tasks were stored, a device was on and its
\* auto-off timer was armed
C20_Witness ==
    /\ last.op = "tick" /\ ~last.fired
    /\ tasks # <<>>
    /\ \E d \in RelayDevices : IsOn(device_status, relays, d) /\ LiveTimers(d) # {}

----------------------------------------------------------------------------
(* HTTP server: vocabulary *)

\* the connection accepted last has been handled
Handled == client.phase = "done"

\* ... and its request was dispatched: it parsed and asks for no upgrade
Dispatched == Handled /\ client.branch \in {"route", "file", "method"}

NotEmpty(s) == s # <<>>

\* the segments of a route pattern
PatternSegments(route) == SelectSeq(Split(route, "/"), NotEmpty)

\* the pattern registered as route matches the path: as many segments, a
\* literal segment on the path's segment as the compiled pattern reads it,
\* a <name> segment on a segment of word characters
PatternMatches(route, path) ==
    LET rs == PatternSegments(route)
        ps == Split(TrimSlash(path), "/")
    IN  /\ ps[1] = <<>>
        /\ Len(ps) = Len(rs) + 1
        /\ \A k \in 1 .. Len(rs) :
              IF IsArgPart(rs[k])
              THEN \A j \in 1 .. Len(ps[k + 1]) : IsWord(ps[k + 1][j])
              ELSE Len(rs[k]) = Len(ps[k + 1]) /\ TextAt(ps[k + 1], 1, rs[k])

\* the positions of the registered routes that match a request
MatchingRoutes(rhs, method, path) ==
    {k \in 1 .. Len(rhs) : rhs[k].method = method /\ PatternMatches(rhs[k].route, path)}

\* the status lines written on the connection, in order
StatusCodes(wire) ==
    LET lines == SelectSeq(wire, LAMBDA item : item.kind = "status")
    IN  [i \in 1 .. Len(lines) |-> lines[i].code]

----------------------------------------------------------------------------
(* HTTP server: claims *)

\* C11: GetRouteHandler returns the handler of the first route, in
\* registration order, whose method is the request's and whose pattern
\* matches the path segment by segment; with no such route it returns
\* (None, None).
C11_FirstRouteWins ==
    Dispatched =>
        LET M == MatchingRoutes(routeHandlers, client.method, client.resPath)
        IN  IF M = {} THEN client.func = "None" /\ client.routeArgs.none
            ELSE client.func = routeHandlers[Least(M)].func

\* a request that two routes with different handlers match was dispatched
C11_Witness ==
    /\ Dispatched
    /\ LET M == MatchingRoutes(routeHandlers, client.method, client.resPath)
       IN  \E j \in M, k \in M :
              /\ j < k
              /\ routeHandlers[j].func # routeHandlers[k].func
              /\ client.func = routeHandlers[j].func

\* the peer stays and reads all that is written to it
PeerStays == client.req.failAt = 0

C13_HandlerExceptionAnswered ==
    (Handled /\ client.branch = "route" /\ client.raised) =>
        /\ ~client.escaped
        /\ serverProcess # "raised"
        /\ PeerStays =>
              LET codes == StatusCodes(client.wire) IN codes[Len(codes)] = 500

\* a handler raised on a connection served after one whose handler had raised
C13_Witness ==
    /\ Handled /\ client.branch = "route" /\ client.raised
    /\ client.func = "raises"
    /\ last.op = "client" /\ last.afterRaise
    /\ StatusCodes(client.wire) = <<500>>

\* C14 as claimed: a request whose request line or header line is malformed
\* is answered with a 400 before the connection is closed.
C14_Original ==
    (Handled /\ PeerStays /\ client.branch \in {"no request", "bad header"}) =>
        StatusCodes(client.wire) = <<400>>

\* the answer of WriteResponseNotFound
NotFoundCodes == IF notFoundUrl # "None" THEN <<302>> ELSE <<404>>

\* the request was dispatched to no route handler and nothing fails while it
\* is answered
Unrouted ==
    /\ Dispatched /\ client.func = "None"
    /\ PeerStays /\ client.req.readFail = 0

RECURSIVE BodyLength(_)
\* the body bytes written on the connection
BodyLength(wire) ==
    IF wire = <<>> THEN 0
    ELSE (IF Head(wire).kind = "body" THEN Head(wire).len ELSE 0) + BodyLength(Tail(wire))

\* the file that static resolution finds for the request
Resolved == PhysPathFromURLPath(www, client.resPath)

\* C15 as claimed: an unrouted GET is answered with the file when one exists
\* and with 404 (or the redirect) otherwise; any other method with 405
\* without a look at the file system.
C15_Original ==
    Unrouted =>
        IF client.method = "GET"
        THEN IF Resolved.found
             THEN /\ StatusCodes(client.wire) = <<200>>
                  /\ BodyLength(client.wire) = www[Resolved.physPath]
             ELSE StatusCodes(client.wire) = NotFoundCodes
        ELSE StatusCodes(client.wire) = <<405>> /\ client.stats = <<>>

\* C15, amended: an unrouted GET is answered with the file when a file that
\* is not empty and has a known MIME type exists and the request carries no
\* If-Modified-Since; with 404 (or the redirect) when no file exists or the
\* file is empty; with 403 when its type is unknown; with 304 when the
\* request carries If-Modified-Since; with the template's result for a
\* .pyhtml file.  Any other method is answered with 405 without a look at
\* the file system.
C15_StaticFallback ==
    Unrouted =>
        LET codes == StatusCodes(client.wire)
            name == Lower(Resolved.physPath)
        IN  IF client.method # "GET" THEN codes = <<405>> /\ client.stats = <<>>
            ELSE IF ~Resolved.found THEN codes = NotFoundCodes
            ELSE IF EndsWithStr(name, <<".", "p", "y", "h", "t", "m", "l">>)
            THEN codes = (IF client.req.tmpl = "ok" THEN <<200>>
                          ELSE IF client.req.tmpl = "raises" THEN <<500>> ELSE <<501>>)
            ELSE IF \A ext \in mimeTypes : ~EndsWithStr(name, ext) THEN codes = <<403>>
            ELSE IF "if-modified-since" \in DOMAIN client.headers THEN codes = <<304>>
            ELSE IF www[Resolved.physPath] = 0 THEN codes = NotFoundCodes
            ELSE /\ codes = <<200>>
                 /\ BodyLength(client.wire) = www[Resolved.physPath]

\* a file of more than one buffer was sent for an unrouted GET
C15_Witness ==
    /\ Unrouted /\ client.method = "GET" /\ Resolved.found
    /\ StatusCodes(client.wire) = <<200>>
    /\ BodyLength(client.wire) > BufLen

\* C16 as claimed: once body bytes are on the wire no status line or header
\* follows, so a connection carries at most one status line.
C16_Original ==
    Handled =>
        /\ Len(StatusCodes(client.wire)) <= 1
        /\ \A i \in 1 .. Len(client.wire) : \A j \in 1 .. Len(client.wire) :
              (i < j /\ client.wire[i].kind = "body") => client.wire[j].kind = "body"

\* C17 as claimed: no path that static resolution looks up has a
\* parent-directory step.
C17_Original ==
    Handled => \A i \in 1 .. Len(client.stats) :
                  \A seg \in {Split(client.stats[i], "/")[k] :
                                 k \in 1 .. Len(Split(client.stats[i], "/"))} :
                      seg # <<".", ".">>

\* where reading the header lines ends: the first line that is no header
\* line, or the end of the input
HeaderEnd(lines) ==
    IF \E i \in 1 .. Len(lines) : lines[i].kind # "header"
    THEN Least({i \in 1 .. Len(lines) : lines[i].kind # "header"})
    ELSE Len(lines) + 1

\* the content-length header of the request, <<>> when it has none
DeclaredLength(lines) ==
    LET at == {i \in 1 .. (HeaderEnd(lines) - 1) : LowerName(lines[i].name) = "content-length"}
    IN  IF at = {} THEN <<>>
        ELSE lines[CHOOSE i \in at : \A j \in at : j <= i].value

\* C18: parsing reads the lines up to the end of the headers and nothing of
\* the body; nothing is read from the socket unless the handler asks; a
\* handler's ReadRequestContent() asks for exactly content-length bytes in
\* one read, and for nothing at all when the content length is 0 or the
\* method is neither POST nor PUT.
C18_BodyReadLazy ==
    Handled =>
        /\ client.readlines <= 1 + HeaderEnd(client.req.lines)
        /\ client.branch # "route" => client.reads = <<>>
        /\ (client.branch = "route" /\ client.func = "read_body") =>
              LET declared == DeclaredLength(client.req.lines)
                  length == IF client.method \in {"POST", "PUT"} /\ IsNumeric(declared)
                            THEN ToInt(declared) ELSE 0
              IN  client.reads = (IF length > 0 THEN <<length>> ELSE <<>>)

\* a POST with 'Content-Length: 0' was handled by a handler that reads the body
C18_Witness ==
    /\ Handled /\ client.branch = "route" /\ client.func = "read_body"
    /\ client.method = "POST"
    /\ DeclaredLength(client.req.lines) = <<"0">>
    /\ client.reads = <<>>
    /\ StatusCodes(client.wire) = <<200>>

----------------------------------------------------------------------------
(* C23, C30: what leaves the Task Store, checked under Spec *)

\* the minute of task t has passed at minute c
Expired(t, c) == \E c0 \in 0 .. (c - 1) : Due(t, c0)

\* C23: only delete_task and a tick that finds a due task take a task out of
\* the list; every other operation (a tick with no due task, an auto-off
\* timer fire, add_task, a minute passing, a restart on the saved file) leaves
\* every stored task where it is and as it is, and add_task on a full list
\* raises and stores nothing even when the tasks filling it have expired.
C23_TasksLeaveByDeleteOrFire ==
    [][(last'.op # "delete" /\ ~(last'.op = "tick" /\ DuePositions(tasks, clock) # {}))
          => /\ Len(tasks') >= Len(tasks)
             /\ SubSeq(tasks', 1, Len(tasks)) = tasks
             /\ (last'.op # "add" => tasks' = tasks)
             /\ (last'.op = "add" /\ Len(tasks) >= max_tasks)
                    => (last'.raised /\ tasks' = tasks)]_vars

\* add_task has just been refused on a list filled by tasks whose minute
\* passed without a tick
C23_Witness ==
    /\ last.op = "add" /\ last.raised
    /\ Len(tasks) = max_tasks
    /\ \A k \in 1 .. Len(tasks) : Expired(tasks[k], clock)

\* C30: when the first due task names a device outside pump1, pump2, pump3
\* and dcmotor, the tick removes that task and leaves every relay, every
\* device status and every auto-off timer as it was.
C30_UnknownDeviceTaskRemoved ==
    [][(/\ last'.op = "tick"
        /\ DuePositions(tasks, clock) # {}
        /\ tasks[Least(DuePositions(tasks, clock))].device \notin RelayDevices)
          => /\ IsRemoval(tasks, tasks', Least(DuePositions(tasks, clock)))
             /\ UNCHANGED deviceVars]_vars

\* a tick has consumed a servo task while a relay task of the same minute is
\* still stored, its device off
C30_Witness ==
    /\ last.op = "tick" /\ last.fired
    /\ last.task.device \notin RelayDevices
    /\ device_status[last.task.device] = ServoAngle
    /\ \E k \in DuePositions(tasks, clock) :
          /\ tasks[k].device \in RelayDevices
          /\ ~IsOn(device_status, relays, tasks[k].device)

----------------------------------------------------------------------------
(* C24, C25: what a route pattern matches, checked under SpecWeb *)

\* the claimed reading of a pattern: as many segments as the path, a <name>
\* segment on any segment, a literal segment on the identical segment
SegmentsMatch(route, path) ==
    LET rs == PatternSegments(route)
        ps == Split(TrimSlash(path), "/")
    IN  /\ ps[1] = <<>>
        /\ Len(ps) = Len(rs) + 1
        /\ \A k \in 1 .. Len(rs) : IsArgPart(rs[k]) \/ rs[k] = ps[k + 1]

\* the positions of the <name> segments of a pattern
ArgPositions(route) ==
    LET rs == PatternSegments(route)
    IN  SelectSeq([k \in 1 .. Len(rs) |-> k], LAMBDA k : IsArgPart(rs[k]))

\* the values the claim passes to the handler: each captured segment, as an
\* integer when it is a run of digits and as a str otherwise
SegmentArgs(route, path) ==
    LET rs == PatternSegments(route)
        ps == Split(TrimSlash(path), "/")
        at == ArgPositions(route)
    IN  IF at = <<>> THEN NoArgs
        ELSE [none |-> FALSE,
              args |-> [i \in 1 .. Len(at) |->
                  LET name == SubSeq(rs[at[i]], 2, Len(rs[at[i]]) - 1)
                      value == ps[at[i] + 1]
                  IN  IF IsNumeric(value)
                      THEN [name |-> name, int |-> TRUE, n |-> ToInt(value)]
                      ELSE [name |-> name, int |-> FALSE, s |-> value]]]

\* C24 as claimed: the route found for a request is the first one of its
\* method whose pattern matches the path segment by segment, a <name>
\* segment matching any one segment whatever its characters and a literal
\* segment only the identical one, and the handler gets each captured
\* segment as an integer when it is numeric and as a str otherwise.
C24_Original ==
    Dispatched =>
        LET M == {k \in 1 .. Len(routeHandlers) :
                    /\ routeHandlers[k].method = client.method
                    /\ SegmentsMatch(routeHandlers[k].route, client.resPath)}
        IN  IF M = {} THEN client.func = "None"
            ELSE /\ client.func = routeHandlers[Least(M)].func
                 /\ client.routeArgs =
                        SegmentArgs(routeHandlers[Least(M)].route, client.resPath)

\* C25 as claimed: the route found is the first one whose method, put in
\* upper case, is the request's method put in upper case and whose pattern
\* matches the path with one trailing slash removed, literal segments
\* compared as they are written.
C25_Original ==
    Dispatched =>
        LET M == {k \in 1 .. Len(routeHandlers) :
                    /\ Upper(routeHandlers[k].method) = Upper(client.req.first.elements[1])
                    /\ PatternMatches(routeHandlers[k].route, client.resPath)}
        IN  IF M = {} THEN client.func = "None"
            ELSE client.func = routeHandlers[Least(M)].func

----------------------------------------------------------------------------
(* C21, C27: a tick in which a statement raises, checked under SpecRaise *)

\* the last step was a tick in which a statement raised
TickRaised == last.op = "tick" /\ "raised" \in DOMAIN last

\* C21: an exception raised by any statement of a tick (reading the clock,
\* reading the tasks, switching the relay, arming the timer, deleting the
\* task) does not leave check_scheduled_tasks, and once a tick has raised
\* the periodic timer is still armed, so that the ticks after it are run.
C21_RaisingTickCaught ==
    /\ TickRaised => ~last.escaped
    /\ faults > 0 => task_timer.armed /\ task_timer.mode = "PERIODIC"

\* a tick has executed a task after an earlier tick raised
C21_Witness ==
    /\ last.op = "tick" /\ ~TickRaised /\ last.fired
    /\ faults > 0

\* C27 as claimed (its safety part): whenever a relay device is on, switched
\* on by a scheduled task, an armed auto-off timer exists for it.
C27_Original ==
    \A d \in RelayDevices :
        IsOn(device_status, relays, d) => LiveTimers(d) # {}

----------------------------------------------------------------------------
(* C22: the list get_tasks returns, checked under SpecList *)

\* What does hold of get_tasks (used by C23): the call itself changes neither
\* the list nor the file nor any device.
GetTasksChangesNothing ==
    [][last'.op = "get_tasks" => UNCHANGED <<storeVars, deviceVars>>]_vars

\* C22 as claimed: the sequence a caller got from get_tasks is a snapshot:
\* an add_task, a delete_task or a tick after the call leaves the sequence
\* the caller holds as it was, and a change the caller makes to it leaves
\* the store's list as it was.
C22_Original ==
    [][(held.taken /\ held'.taken) =>
          /\ last'.op \in {"add", "delete", "tick"}
                => ListOf(held', tasks') = ListOf(held, tasks)
          /\ last'.op = "caller" => tasks' = tasks]_vars

----------------------------------------------------------------------------
(* C29: the storage file and the in-memory list, checked under SpecPersist *)

\* the storage file holds the in-memory list, task by task in its order
FileIsList == file.exists /\ file.text = Dump(tasks)

\* C29 as claimed: the file holds the in-memory list after every add_task or
\* delete_task that returned with no write of the file having failed, and
\* after every tick that fired a task.
C29_Original ==
    /\ (last.op = "add" /\ ~last.raised /\ last.save = "ok") => FileIsList
    /\ (last.op = "delete" /\ last.save \in {"ok", "none"}) => FileIsList
    /\ (last.op = "tick" /\ last.fired) => FileIsList

\* C29 amended: the file holds the in-memory list after every add_task,
\* every delete_task and every firing tick that wrote the file without a
\* failure; an operation that writes nothing (delete_task of an invalid
\* index) and a firing whose write failed leave the file as it was or damaged.
C29_FileIsListAfterWrite ==
    (last.op \in {"add", "delete", "tick"} /\ "save" \in DOMAIN last /\ last.save = "ok")
        => FileIsList

\* a tick has fired a task and written the shorter list over a file that an
\* earlier failed write had left different from the list
C29_Witness ==
    /\ last.op = "tick" /\ last.fired /\ last.save = "ok"
    /\ faults > 0
    /\ tasks # <<>>
    /\ FileIsList

----------------------------------------------------------------------------
(* C26, C28: timer callbacks between the statements of the main thread,    *)
(* checked under SpecMain                                                  *)

C28_Original ==
    (main.op = "shutdown" /\ main.pc = "done") =>
        /\ \A ch \in Channels : relays[ch] = 1
        /\ timers = {}
        /\ ~task_timer.armed


====
